---- MODULE Spec2Model ----
(***************************************************************************)
(* Verification model of the visit / field allocation code of ics_utils:   *)
(*   python/ics/utils/visit/pfsVisit.py      Visit, AgVisit, FpsVisit,     *)
(*                                           SpsVisit                      *)
(*   python/ics/utils/visit/pfsField.py      PfsField                      *)
(*   python/ics/utils/visit/visitManager.py  VisitManager                  *)
(*                                                                         *)
(* and of the module python/ics/utils/visit.py, which defines the same     *)
(* classes a second time.                                                  *)
(*                                                                         *)
(* The specifications of the module:                                       *)
(*   SpecVisit  one Visit object used by several threads; nextFrameId is   *)
(*              modelled statement by statement, so that the interleavings *)
(*              of its dead-check, its locked section and stop() show.     *)
(*   Spec       the VisitManager with its active PfsField, the Visit       *)
(*              objects, the sequencer, the opdb tables, the pfsConfig     *)
(*              files and the persisted 'pfsField' key; every method runs  *)
(*              to completion (single command-dispatch thread).            *)
(*   SpecField  the active field with its pfsConfig0: makePfsConfig,       *)
(*              loadPfsConfig0, the pfsConfig files the FPS writes.        *)
(*   SpecRestart  the manager over restarts of the process: reloadField    *)
(*              from the persisted 'pfsField' key, finishField, getField.  *)
(*   SpecAvail  availability of the Visits: fields declared with and       *)
(*              without a sequencer id, locks, opdb rows.                  *)
(*   SpecFrames the Visit a command holds: lock, unlock, stop, nextFrameId *)
(*              and its replacement in the field.                          *)
(*   SpecRoles  direct calls of PfsField.getVisit and reconfigure with     *)
(*              every caller name.                                         *)
(*   SpecGen2   a sequencer that may not answer.                           *)
(*   SpecDirs   the pfsConfig files in the date directories over the days, *)
(*              readable or not, and loadPfsConfig0.                       *)
(*   SpecGrating  getGratingPosition over design files of every arm set.   *)
(*   SpecLegacy the VisitManager and PfsField of visit.py.                 *)
(*   SpecReload the frame ids of the manager's Visits over restarts.       *)
(*   SpecRace   VisitManager.getVisit statement by statement, two threads.  *)
(*                                                                         *)
(* and of other parts of the package:                                      *)
(*   SpecThread the decorators of threading.py on a controller thread.     *)
(*   SpecLamps  doAbort of the lamp controllers against the go sequence.    *)
(*   SpecSocket BufferedSocket.getOneResponse over every chunking.         *)
(*   SpecPdu, SpecPduLive  safeOneCommand of the PDU driver.               *)
(*   SpecFits   the FitsWriter process and its two queues.                 *)
(***************************************************************************)
EXTENDS Integers, Sequences, FiniteSets, TLC

(***************************************************************************)
(* Program constants.                                                      *)
(***************************************************************************)
\* pfsVisit.py:55   if frameIdx >= 100: raise VisitOverflowed
FrameLimit == 100
\* pfsVisit.py:59   return self.visitId * 100 + frameIdx
FrameIdBase == 100

\* LockedThread.timeLimToFinish (fsmThread.py:7), in seconds
TimeLimToFinish == 10

\* pdu aten.maxIOAttempt, waitBetweenAttempt and loginTimeout
\* (sps/pdu/controllers/aten.py:15, 16, 19)
MaxIOAttempt == 3
WaitBetweenAttempt == 1
LoginTimeout == 50

(***************************************************************************)
(* Bounds of the model.                                                    *)
(***************************************************************************)
\* largest visit id the sequencer hands out before the model stops fetching
MaxVisitId == 3

\* the threads that share the Visit object of SpecVisit
Threads == {"t1", "t2"}

None == "None"

VARIABLES
    \* ---- SpecVisit: one Visit object (pfsVisit.py:10-19) ----
    visitId,      \* self.visitId
    isActive,     \* self.isActive
    iAmDead,      \* self.iAmDead
    frameId,      \* self.__frameId
    idLock,       \* self.idLock: the thread that owns the RLock, or None
    \* ---- SpecVisit: the threads ----
    pc,           \* pc[t]: where thread t stands in nextFrameId
    frameIdx,     \* frameIdx[t]: the local variable of nextFrameId
    \* ---- SpecVisit: observations ----
    raised,       \* the exceptions nextFrameId has raised, with their context
    lateEntry,    \* a call passed the dead-check although stop() had been called
    issued,       \* frame ids in the order their calls held idLock
    returned,     \* frame ids returned so far
    dupReturned,  \* frame ids returned more than once
    stopCalled,   \* stop() has been called
    cntAtStop,    \* the counter when stop() was first called (-1: not yet)
    quietAtStop,  \* no nextFrameId call was in progress at that moment
    lateIssued    \* frame ids whose counter increment ran after stop()

vvars == <<visitId, isActive, iAmDead, frameId, idLock, pc, frameIdx,
           raised, lateEntry, issued, returned, dupReturned, stopCalled,
           cntAtStop, quietAtStop, lateIssued>>

VARIABLES
    \* ---- Spec: the VisitManager and what it talks to ----
    activeField,   \* VisitManager.activeField: a PfsField (with the three
                   \* Visit objects of its visit dict) or NoField
    held,          \* the Visit a command got from getVisit and still holds:
                   \* a Visit object of the active field, or one of its own
    persisted,     \* the 'pfsField' key of the actor's persisted keywords
    gen2Last,      \* Gen2 sequencer: the last visit id handed out
    mcsExposure,   \* opdb: the pfs_visit_id values of table mcs_exposure
    pfsConfigRows, \* opdb: the visit0 values of table pfs_config
    configFiles,   \* the pfsConfig files of the recent date directories:
                   \* design id, visit and status flags of each
    \* ---- Spec: observations ----
    lastCall,      \* the VisitManager / PfsField call made by the last step
    spsLog,        \* ids of the Visits getVisit('sps') returned on a field
    declaredVisit0 \* the visit0 the active field was declared with

mvars == <<activeField, held, persisted, gen2Last,
           mcsExposure, pfsConfigRows, configFiles, lastCall, spsLog,
           declaredVisit0>>

VARIABLES
    \* ---- the surroundings of the process ----
    designArms,    \* PfsDesign.arms of each design file under the design root
    dateDirs,      \* the dated directories /data/raw/20??-??-??, as day numbers
    gen2Up         \* the Gen2 sequencer answers fetchVisitFromGen2

xvars == <<designArms, dateDirs, gen2Up>>

VARIABLES
    \* ---- history ----
    frameLog       \* the frame ids nextFrameId returned to the commands, each
                   \* with the role of the Visit that issued it

VARIABLES
    \* ---- a controller thread (LockedThread) and its commands ----
    thrQueue,      \* the messages put on the thread's queue, oldest first
    thrRunning,    \* the message the thread is calling, or NoMsg
    onGoingCmd,    \* LockedThread.onGoingCmd: <<>> for False, or <<cmd>>
    thrLast        \* observation: the last submission and what became of it

tvars == <<thrQueue, thrRunning, onGoingCmd, thrLast>>

VARIABLES
    \* ---- a lamp controller on that thread ----
    abortWarmup,   \* the controller's abortWarmup flag
    abortPc,       \* where doAbort is: "idle" or "waiting"
    waited,        \* seconds waitForCommandToFinish has been waiting
    abortEnded,    \* observation: how the last doAbort ended
    goLog          \* observation: what the go sequences did

lvars == <<abortWarmup, abortPc, waited, abortEnded, goLog>>

VARIABLES
    \* ---- a BufferedSocket ----
    EOL,           \* BufferedSocket.EOL, a string (sequence of characters)
    sockSent,      \* history: what the peer sends, as the chunks recv()
                   \* returns it in
    sockPending,   \* the chunks recv() has not returned yet
    buffer,        \* BufferedSocket.buffer
    sockReturned,  \* history: the lines getOneResponse returned
    sockLast       \* observation: the last getOneResponse

svars == <<EOL, sockSent, sockPending, buffer, sockReturned, sockLast>>

VARIABLES
    \* ---- the PDU driver (aten) ----
    sock,          \* aten.sock: "None" or "socket"
    loginTime,     \* aten.loginTime
    now,           \* time.time()
    pduPc,         \* where safeOneCommand is
    nAttempt,      \* the nAttempt of the running safeOneCommand call
    pduLog,        \* observation: the sendOneCommand calls of the call:
                   \* how many, how many failed, the last one
    pduResult      \* observation: how the call ended

pvars == <<sock, loginTime, now, pduPc, nAttempt, pduLog, pduResult>>

VARIABLES
    \* ---- the FitsWriter process ----
    inQ,           \* the queue the process takes its commands from
    outQ,          \* the queue the process reports on
    currentFits,   \* FitsWriter.currentFits: "None" or "FITS"
    currentPath,   \* FitsWriter.currentPath: "None" or a path
    tempPath,      \* FitsWriter.tempPath: "None" or a path
    fwAlive,       \* the process is in its loop
    taken          \* history: the commands taken from inQ, with the number
                   \* of reports each one made

fvars == <<inQ, outQ, currentFits, currentPath, tempPath, fwAlive, taken>>

VARIABLES
    \* ---- getVisit calls of several threads on one manager ----
    gvPc,          \* where the getVisit call of each thread is
    gvCaller,      \* the caller argument of the call
    gvNew,         \* the local variable new of the call
    gvRet,         \* the Visit the call returned
    gvOverlap      \* history: the call ran while another call was running

cvars == <<gvPc, gvCaller, gvNew, gvRet, gvOverlap>>

yvars == <<tvars, lvars, svars, pvars, fvars, cvars>>

vars == <<vvars, mvars, xvars, frameLog, yvars>>

(***************************************************************************)
(* Visit: pfsVisit.py                                                      *)
(***************************************************************************)

\* Visit.nextFrameId line 59: the value returned for a counter value
FrameIdOf(vid, idx) == vid * FrameIdBase + idx

\* the overflow test off by one: a counter value of 100 would still pass
OverflowedLate(idx) == idx > FrameLimit

\* Visit.nextFrameId line 55: the overflow test on the value read
Overflowed(idx) == idx >= FrameLimit

\* a lock that excludes nobody
CanAcquireUnlocked(t) == TRUE

\* threading.RLock acquire: free, or already owned by the caller (reentrant)
CanAcquire(t) == idLock = None \/ idLock = t

\* what is recorded of a raise: the exception, whether stop() had been called
\* when the call started, and the counter value the call had read (-1: none)
Raise(exc, stopped, idx) == [exc |-> exc, stopped |-> stopped, idx |-> idx]

VisitInit(ids) ==
    /\ visitId \in ids
    /\ isActive = FALSE
    /\ iAmDead = FALSE
    /\ frameId = 0
    /\ idLock = None
    /\ pc = [t \in Threads |-> "idle"]
    /\ frameIdx = [t \in Threads |-> 0]
    /\ raised = {}
    /\ lateEntry = FALSE
    /\ issued = <<>>
    /\ returned = {}
    /\ dupReturned = {}
    /\ stopCalled = FALSE
    /\ cntAtStop = -1
    /\ quietAtStop = FALSE
    /\ lateIssued = {}

\* nextFrameId without its test of iAmDead
DeadCheckSkipped == FALSE

\* nextFrameId line 50: if self.iAmDead
DeadCheck == iAmDead

\* nextFrameId lines 50-51: the call starts by reading iAmDead, outside the lock
NfCheckDead(t) ==
    /\ pc[t] = "idle"
    /\ IF DeadCheck
       THEN /\ raised' = raised \cup
                    {Raise("VisitAlreadyDone", stopCalled, -1)}
            /\ UNCHANGED <<pc, lateEntry>>
       ELSE /\ pc' = [pc EXCEPT ![t] = "acquire"]
            /\ lateEntry' = (lateEntry \/ stopCalled)
            /\ UNCHANGED raised
    /\ UNCHANGED <<visitId, isActive, iAmDead, frameId, idLock, frameIdx,
                   issued, returned, dupReturned, stopCalled, cntAtStop, quietAtStop, lateIssued>>
    /\ UNCHANGED <<mvars, xvars, frameLog, yvars>>

\* nextFrameId line 53: with self.idLock (blocks while another thread owns it)
NfAcquire(t) ==
    /\ pc[t] = "acquire"
    /\ CanAcquire(t)
    /\ idLock' = t
    /\ pc' = [pc EXCEPT ![t] = "read"]
    /\ UNCHANGED <<visitId, isActive, iAmDead, frameId, frameIdx, raised,
                   lateEntry, issued, returned, dupReturned, stopCalled, cntAtStop, quietAtStop,
                   lateIssued>>
    /\ UNCHANGED <<mvars, xvars, frameLog, yvars>>

\* nextFrameId lines 54-56: read the counter; on overflow the exception leaves
\* the with block, which releases the lock
NfRead(t) ==
    /\ pc[t] = "read"
    /\ IF Overflowed(frameId)
       THEN /\ idLock' = IF idLock = t THEN None ELSE idLock
            /\ pc' = [pc EXCEPT ![t] = "idle"]
            /\ raised' = raised \cup
                    {Raise("VisitOverflowed", FALSE, frameId)}
            /\ UNCHANGED frameIdx
       ELSE /\ pc' = [pc EXCEPT ![t] = "incr"]
            /\ frameIdx' = [frameIdx EXCEPT ![t] = frameId]
            /\ UNCHANGED <<idLock, raised>>
    /\ UNCHANGED <<visitId, isActive, iAmDead, frameId, lateEntry,
                   issued, returned, dupReturned, stopCalled, cntAtStop, quietAtStop, lateIssued>>
    /\ UNCHANGED <<mvars, xvars, frameLog, yvars>>

\* nextFrameId line 57: self.__frameId += 1
NfIncr(t) ==
    /\ pc[t] = "incr"
    /\ frameId' = frameId + 1
    /\ issued' = Append(issued, FrameIdOf(visitId, frameIdx[t]))
    /\ lateIssued' = IF stopCalled
                     THEN lateIssued \cup {FrameIdOf(visitId, frameIdx[t])}
                     ELSE lateIssued
    /\ pc' = [pc EXCEPT ![t] = "release"]
    /\ UNCHANGED <<visitId, isActive, iAmDead, idLock, frameIdx, raised,
                   lateEntry, returned, dupReturned, stopCalled, cntAtStop, quietAtStop>>
    /\ UNCHANGED <<mvars, xvars, frameLog, yvars>>

\* nextFrameId: the end of the with block releases the lock
NfRelease(t) ==
    /\ pc[t] = "release"
    /\ idLock' = IF idLock = t THEN None ELSE idLock
    /\ pc' = [pc EXCEPT ![t] = "return"]
    /\ UNCHANGED <<visitId, isActive, iAmDead, frameId, frameIdx, raised,
                   lateEntry, issued, returned, dupReturned, stopCalled, cntAtStop, quietAtStop,
                   lateIssued>>
    /\ UNCHANGED <<mvars, xvars, frameLog, yvars>>

\* nextFrameId line 59: return self.visitId * 100 + frameIdx
NfReturn(t) ==
    /\ pc[t] = "return"
    /\ LET id == FrameIdOf(visitId, frameIdx[t]) IN
        /\ returned' = returned \cup {id}
        /\ dupReturned' = IF id \in returned THEN dupReturned \cup {id}
                          ELSE dupReturned
    /\ pc' = [pc EXCEPT ![t] = "idle"]
    /\ frameIdx' = [frameIdx EXCEPT ![t] = 0]
    /\ UNCHANGED <<visitId, isActive, iAmDead, frameId, idLock, raised,
                   lateEntry, issued, stopCalled, cntAtStop, quietAtStop, lateIssued>>
    /\ UNCHANGED <<mvars, xvars, frameLog, yvars>>

\* Visit.lock lines 65-67
ThreadLock(t) ==
    /\ pc[t] = "idle"
    /\ isActive' = TRUE
    /\ UNCHANGED <<visitId, iAmDead, frameId, idLock, pc, frameIdx, raised,
                   lateEntry, issued, returned, dupReturned, stopCalled, cntAtStop, quietAtStop,
                   lateIssued>>
    /\ UNCHANGED <<mvars, xvars, frameLog, yvars>>

\* Visit.unlock lines 69-71
ThreadUnlock(t) ==
    /\ pc[t] = "idle"
    /\ isActive' = FALSE
    /\ UNCHANGED <<visitId, iAmDead, frameId, idLock, pc, frameIdx, raised,
                   lateEntry, issued, returned, dupReturned, stopCalled, cntAtStop, quietAtStop,
                   lateIssued>>
    /\ UNCHANGED <<mvars, xvars, frameLog, yvars>>

\* Visit.stop lines 73-75
ThreadStop(t) ==
    /\ pc[t] = "idle"
    /\ iAmDead' = TRUE
    /\ stopCalled' = TRUE
    /\ cntAtStop' = IF stopCalled THEN cntAtStop ELSE frameId
    /\ quietAtStop' = IF stopCalled THEN quietAtStop
                      ELSE \A u \in Threads : pc[u] = "idle"
    /\ UNCHANGED <<visitId, isActive, frameId, idLock, pc, frameIdx, raised,
                   lateEntry, issued, returned, dupReturned, lateIssued>>
    /\ UNCHANGED <<mvars, xvars, frameLog, yvars>>

NextVisit ==
    \E t \in Threads :
        \/ NfCheckDead(t)
        \/ NfAcquire(t)
        \/ NfRead(t)
        \/ NfIncr(t)
        \/ NfRelease(t)
        \/ NfReturn(t)
        \/ ThreadLock(t)
        \/ ThreadUnlock(t)
        \/ ThreadStop(t)

(***************************************************************************)
(* Python values as the persisted keyword file holds them.                 *)
(***************************************************************************)
PyNone == [type |-> "NoneType"]
PyInt(n) == [type |-> "int", val |-> n]
PyStr(s) == [type |-> "str", val |-> s]

HexChars == <<"0", "1", "2", "3", "4", "5", "6", "7",
              "8", "9", "a", "b", "c", "d", "e", "f">>

\* the hexadecimal digits of n >= 0, most significant first
RECURSIVE HexDigits(_)
HexDigits(n) ==
    IF n < 16 THEN <<HexChars[n + 1]>>
    ELSE Append(HexDigits(n \div 16), HexChars[(n % 16) + 1])

RECURSIVE ZeroPad(_, _)
ZeroPad(s, width) ==
    IF Len(s) >= width THEN s ELSE ZeroPad(<<"0">> \o s, width)

\* '0x%x': the design id without the zero padding to 16 digits
FormatDesignIdUnpadded(n) == <<"0", "x">> \o HexDigits(n)

\* PfsField.persist line 84: '0x%016x' % self.pfsDesign.pfsDesignId
FormatDesignId(n) == <<"0", "x">> \o ZeroPad(HexDigits(n), 16)

HexValue(ch) == (CHOOSE i \in 1..16 : HexChars[i] = ch) - 1

RECURSIVE HexNumber(_)
HexNumber(s) ==
    IF Len(s) = 0 THEN 0
    ELSE 16 * HexNumber(SubSeq(s, 1, Len(s) - 1)) + HexValue(s[Len(s)])

\* PfsField.__init__ line 42: int(pfsDesignId, 16), which takes a 0x prefix
IntBase16(s) ==
    IF Len(s) >= 2 /\ s[1] = "0" /\ s[2] = "x"
    THEN HexNumber(SubSeq(s, 3, Len(s)))
    ELSE HexNumber(s)

(***************************************************************************)
(* Collaborators.                                                          *)
(***************************************************************************)
\* PfsDesign.read: the design files that exist under the design root
DesignStore == {43981, 26}
\* the design ids callers declare; 7 has no design file
DesignIds == DesignStore \cup {7}

\* the spectrograph arms a PfsDesign can list
Arms == {"b", "r", "n", "m"}

\* fetchVisitFromGen2 (visitManager.py:72) when the sequencer does not answer
Gen2Error == "Gen2Error"

\* opdb query_scalar: the first column of the first row, or None
QueryScalar(table, vid) == IF vid \in table THEN PyInt(vid) ELSE PyNone

\* Python truth value of a query result
Truthy(x) == x # PyNone /\ x # PyInt(0)

(***************************************************************************)
(* Visit objects of the manager: pfsVisit.py                               *)
(***************************************************************************)
FieldRoles == {"ag", "fps", "sps"}
Callers == {"sps", "fps", "mcs", "ag", "agc"}

\* Visit.__init__ lines 10-19
NewVisit(vid, caller, name) ==
    [visitId |-> vid, caller |-> caller, name |-> name,
     isActive |-> FALSE, iAmDead |-> FALSE, frameId |-> 0]

\* AgVisit.__init__, FpsVisit.__init__, SpsVisit.__init__
AgVisit(vid, name) == NewVisit(vid, "ag", name)
FpsVisit(vid, name) == NewVisit(vid, "fps", name)
SpsVisit(vid, name) == NewVisit(vid, "sps", name)

\* Visit.fromCaller lines 37-46 (every caller of Callers is known)
FromCaller(vid, caller, name) ==
    IF caller = "sps" THEN SpsVisit(vid, name)
    ELSE IF caller \in {"mcs", "fps"} THEN FpsVisit(vid, name)
    ELSE AgVisit(vid, name)

\* Visit.isPopulated line 35, for FpsVisit: table mcs_exposure
IsPopulated(v) == Truthy(QueryScalar(mcsExposure, v.visitId))

\* FpsVisit.isPfsConfig0Populated line 101
IsPfsConfig0Populated(v) == Truthy(QueryScalar(pfsConfigRows, v.visitId))

\* an ag Visit that would look up table mcs_exposure as an fps Visit does
AgAvailableUnlessPopulated(v) == ~(v.isActive \/ IsPopulated(v))

\* AgVisit.isAvailable line 86
AgIsAvailable(v) == ~v.isActive

\* FpsVisit.isAvailable line 97
FpsIsAvailable(v) ==
    ~(v.isActive \/ IsPopulated(v) \/ IsPfsConfig0Populated(v))

\* an sps Visit that would be reusable while not locked, as an ag Visit is
SpsAvailableWhenIdle(v) == ~v.isActive

\* SpsVisit.isAvailable line 113
SpsIsAvailable(v) == FALSE

\* the isAvailable property of a Visit, by its class
IsAvailable(v) ==
    IF v.caller = "ag" THEN AgIsAvailable(v)
    ELSE IF v.caller = "fps" THEN FpsIsAvailable(v)
    ELSE SpsIsAvailable(v)

(***************************************************************************)
(* PfsField: pfsField.py                                                   *)
(***************************************************************************)
NoField == [none |-> TRUE]
NoConfig == [none |-> TRUE]

\* the methods class PfsField defines (pfsField.py:32-209)
PfsFieldMethods ==
    {"declareNew", "reload", "persist", "getVisit", "isVisitAvailableFor",
     "reconfigure", "getGratingPosition", "makePfsConfig", "loadPfsConfig0",
     "setPfsConfig0", "lockVisit", "getVisit0"}

\* PfsField.pfsConfigId lines 65-67
PfsConfigId(f) ==
    IF f.pfsConfig0 = NoConfig THEN PyNone
    ELSE PyInt(f.pfsConfig0.pfsDesignId)

\* PfsField.visit0 lines 57-59
Visit0(f) ==
    IF f.pfsConfig0 = NoConfig THEN PyNone ELSE PyInt(f.pfsConfig0.visit0)

\* a record of the design id and the three visit ids only
PersistedKeyIdsOnly(f) ==
    [present |-> TRUE,
     values |-> <<PyStr(FormatDesignId(f.pfsDesignId)),
                  PyInt(f.visit["ag"].visitId),
                  PyInt(f.visit["fps"].visitId),
                  PyInt(f.visit["sps"].visitId),
                  PyNone, PyNone>>]

\* a record that lists the fps id before the ag id
PersistedKeySwapped(f) ==
    [present |-> TRUE,
     values |-> <<PyStr(FormatDesignId(f.pfsDesignId)),
                  PyInt(f.visit["fps"].visitId),
                  PyInt(f.visit["ag"].visitId),
                  PyInt(f.visit["sps"].visitId),
                  PfsConfigId(f), Visit0(f)>>]

\* PfsField.persist lines 81-86: the values written under key 'pfsField'
PersistedKey(f) ==
    [present |-> TRUE,
     values |-> <<PyStr(FormatDesignId(f.pfsDesignId)),
                  PyInt(f.visit["ag"].visitId),
                  PyInt(f.visit["fps"].visitId),
                  PyInt(f.visit["sps"].visitId),
                  PfsConfigId(f), Visit0(f)>>]

\* no 'pfsField' key in the keyword file
NoKey == [present |-> FALSE]

\* a field whose Visits would always be reported available
AlwaysAvailableFor(f, caller) == TRUE

\* PfsField.isVisitAvailableFor lines 92-94
IsVisitAvailableFor(f, caller) == IsAvailable(f.visit[caller])

\* self.visit[caller] = newVisit: the dict with the key bound, added when
\* the dict did not have it
Bind(visit, caller, newVisit) ==
    [r \in (DOMAIN visit) \cup {caller} |->
        IF r = caller THEN newVisit ELSE visit[r]]

\* reconfigure without the rule that keeps sps and ag in sync
ReconfigureRoleOnly(f, caller, newVisit) ==
    [f EXCEPT !.visit = Bind(f.visit, caller, newVisit)]

\* PfsField.reconfigure lines 96-105: the field as it leaves it; the field is
\* persisted as its last statement
Reconfigure(f, caller, newVisit) ==
    LET f1 == [f EXCEPT !.visit = Bind(f.visit, caller, newVisit)]
    IN  IF caller = "sps"
        THEN [f1 EXCEPT !.visit["ag"] = AgVisit(newVisit.visitId, None)]
        ELSE f1

\* InstrumentStatusFlag.CONVERGENCE_FAILED set in a pfsConfig's instStatusFlag
\* (pfsField.py:156); the flag word is the set of the flags that are set
ConvergenceFailedFlag == "CONVERGENCE_FAILED"
StatusFlags == {{}, {ConvergenceFailedFlag}}

\* a pfsConfig object: its design id, its visit, the visit0 it records and
\* its status flags
PfsConfig(designId, visit, flags) ==
    [pfsDesignId |-> designId, visit |-> visit, visit0 |-> visit,
     instStatusFlag |-> flags]

\* PfsConfig.fromPfsDesign(self.pfsDesign, visit=visitId, ...) lines 139-140
FromPfsDesign(designId, vid) == PfsConfig(designId, vid, {})

\* pfsField.py:168 (and :10, :20): maxDateDirs=7
MaxDateDirs == 7

\* dateDirs.sort(reverse=True) (line 14): the directories, newest first
RECURSIVE SortedReverse(_)
SortedReverse(dirs) ==
    IF dirs = {} THEN <<>>
    ELSE LET newest == CHOOSE d \in dirs : \A e \in dirs : e <= d
         IN  <<newest>> \o SortedReverse(dirs \ {newest})

\* a search that goes through every date directory
IterAllDateDirs(dirs, maxDateDirs) == SortedReverse(dirs)

\* _iterRecentDateDirs lines 10-17: dateDirs[:maxDateDirs]
IterRecentDateDirs(dirs, maxDateDirs) ==
    LET sorted == SortedReverse(dirs)
    IN  SubSeq(sorted, 1,
               IF Len(sorted) < maxDateDirs THEN Len(sorted)
               ELSE maxDateDirs)

\* os.path.isfile(candidate) (line 26): the file pfsConfig-<design>-<visit>
\* of a date directory
IsFile(dateDir, designId, visit0) ==
    \E file \in configFiles :
        /\ file.dateDir = dateDir
        /\ file.pfsDesignId = designId
        /\ file.visit = visit0

\* _findPfsConfigPath lines 20-29: the first date directory of the search
\* that holds the file, as <<dateDir>>, or <<>> for (None, None)
FindPfsConfigPath(designId, visit0) ==
    LET recent == IterRecentDateDirs(dateDirs, MaxDateDirs)
        hits == {i \in 1..Len(recent) : IsFile(recent[i], designId, visit0)}
    IN  IF hits = {} THEN <<>>
        ELSE <<recent[CHOOSE i \in hits : \A j \in hits : i <= j]>>

\* loadPfsConfig0 line 172: pfsConfigPath is not None
PfsConfigFileExists(designId, visit0) ==
    FindPfsConfigPath(designId, visit0) # <<>>

\* the file _findPfsConfigPath found
FoundFile(designId, visit0) ==
    CHOOSE file \in configFiles :
        /\ file.dateDir = FindPfsConfigPath(designId, visit0)[1]
        /\ file.pfsDesignId = designId
        /\ file.visit = visit0

\* PfsConfig.read (line 182) raises on a file it cannot read or parse
ReadFails(designId, visit0) == ~FoundFile(designId, visit0).readable

\* loadPfsConfig0 lines 170-184: the pfsConfig it hands to setPfsConfig0, or
\* NoConfig when it calls setPfsConfig0 not at all (file not found, or the
\* read raised and the except clause of line 183 logged it)
FindPfsConfig(designId, visit0) ==
    IF PfsConfigFileExists(designId, visit0) /\ ~ReadFails(designId, visit0)
    THEN LET file == FoundFile(designId, visit0)
         IN  PfsConfig(file.pfsDesignId, file.visit, file.instStatusFlag)
    ELSE NoConfig

\* PfsField.__init__ lines 35-51 once the design is read: pfsConfigId and
\* visit0 default to the design id and the fps visit id (lines 46-47), and a
\* pfsConfig0 found on disk for them is loaded (lines 50-51)
PfsFieldInit(designId, agV, fpsV, spsV, pfsConfigId, visit0) ==
    LET cfgId == IF pfsConfigId = PyNone THEN designId ELSE pfsConfigId.val
        v0 == IF visit0 = PyNone THEN fpsV ELSE visit0.val
    IN  [pfsDesignId |-> designId,
         visit |-> [r \in FieldRoles |->
                      IF r = "ag" THEN AgVisit(agV, "visit0")
                      ELSE IF r = "fps" THEN FpsVisit(fpsV, "visit0")
                      ELSE SpsVisit(spsV, "visit0")],
         pfsConfig0 |-> IF v0 # 0 THEN FindPfsConfig(cfgId, v0)
                        ELSE NoConfig]

\* PfsField.__init__ lines 35-51 called without pfsConfigId and visit0
NewField(designId, agV, fpsV, spsV) ==
    PfsFieldInit(designId, agV, fpsV, spsV, PyNone, PyNone)

\* PfsField.declareNew lines 69-74: cls(iicActor, pfsDesignId, *3 * [visit0])
DeclareNew(designId, visit0) == NewField(designId, visit0, visit0, visit0)

(***************************************************************************)
(* The Visit a command holds.                                              *)
(***************************************************************************)
NoVisit == [kind |-> "none"]
\* the very object the active field binds to a role
FieldVisit(role) == [kind |-> "field", role |-> role]
\* an object the field does not (or no longer) refer to
OwnVisit(v) == [kind |-> "own", visit |-> v]

\* the state of the Visit object a reference stands for
Deref(f, ref) == IF ref.kind = "field" THEN f.visit[ref.role] ELSE ref.visit

\* the reference once the field lets go of its Visit objects
Detach(f, ref) ==
    IF ref.kind = "field" THEN OwnVisit(f.visit[ref.role]) ELSE ref

(***************************************************************************)
(* VisitManager: visitManager.py.  Every method is one step.               *)
(***************************************************************************)
\* what is observed of a call: the method and its arguments, the exception
\* it raised, the Visit it returned, the ids it fetched from the sequencer,
\* whether a field was active when it started, the role it reconfigured,
\* the Visit reconfigure put out of the ag role, the field declareNew built
Call(op, caller, design, gen, exc, ret, fetched, hadField, reconf, agWas, built) ==
    [op |-> op, caller |-> caller, design |-> design, gen |-> gen,
     exc |-> exc, ret |-> ret, fetched |-> fetched, hadField |-> hadField,
     reconf |-> reconf, agWas |-> agWas, built |-> built]

NoCall == Call(None, None, 0, FALSE, None, NoVisit, <<>>, FALSE, None,
               NoVisit, NoField)

\* fetchVisitFromGen2: the id the sequencer hands out next; it never hands
\* out an id twice
Gen2Next == {gen2Last + 1}

\* VisitManager.declareNewField line 29: the same design is declared again
Redeclared(old, new) ==
    old # NoField /\ old.pfsDesignId = new.pfsDesignId

\* VisitManager.declareNewField lines 23-34
DeclareNewField(designId, genVisit0) ==
    /\ \E id \in (IF genVisit0 THEN Gen2Next ELSE {0}) :
        LET visit0 == id
            raises == genVisit0 /\ ~gen2Up
            fetched == IF genVisit0 THEN <<id>> ELSE <<>>
            made == DeclareNew(designId, visit0)
            call(exc, built) ==
                Call("declareNewField", None, designId, genVisit0, exc,
                     NoVisit, fetched, activeField # NoField, None, NoVisit,
                     built)
        IN
        /\ id <= MaxVisitId
        /\ gen2Last' = IF genVisit0 /\ ~raises THEN id ELSE gen2Last
        /\ IF raises
           THEN \* line 25: the sequencer call raises, nothing else has run
                /\ lastCall' = Call("declareNewField", None, designId,
                                    genVisit0, Gen2Error, NoVisit, <<>>,
                                    activeField # NoField, None, NoVisit,
                                    NoField)
                /\ UNCHANGED <<activeField, held, persisted, declaredVisit0>>
           ELSE IF designId \notin DesignStore
           THEN \* PfsDesign.read raises in PfsField.__init__ (line 43)
                /\ lastCall' = call("FileNotFoundError", NoField)
                /\ UNCHANGED <<activeField, held, persisted, declaredVisit0>>
           ELSE IF /\ Redeclared(activeField, made)
                   /\ "holdPfsConfig0" \notin PfsFieldMethods
           THEN \* line 30 calls a method PfsField does not define; the new
                \* field was persisted by declareNew (line 73) and is dropped
                /\ persisted' = PersistedKey(made)
                /\ lastCall' = call("AttributeError", made)
                /\ UNCHANGED <<activeField, held, declaredVisit0>>
           ELSE LET new == IF Redeclared(activeField, made)
                           THEN [made EXCEPT
                                   !.pfsConfig0 = activeField.pfsConfig0]
                           ELSE made
                IN  /\ activeField' = new
                    /\ held' = Detach(activeField, held)
                    /\ persisted' = PersistedKey(new)
                    /\ declaredVisit0' = visit0
                    /\ lastCall' = call(None, made)
    /\ UNCHANGED <<mcsExposure, pfsConfigRows, configFiles, spsLog>>
    /\ UNCHANGED <<vvars, xvars, frameLog, yvars>>

\* a finishField that forgets the field in memory only
FinishFieldKeepsRecord ==
    /\ activeField' = NoField
    /\ held' = Detach(activeField, held)
    /\ declaredVisit0' = -1
    /\ lastCall' = Call("finishField", None, 0, FALSE, None, NoVisit, <<>>,
                        activeField # NoField, None, NoVisit, NoField)
    /\ UNCHANGED <<persisted, gen2Last, mcsExposure, pfsConfigRows,
                   configFiles, spsLog>>
    /\ UNCHANGED <<vvars, xvars, frameLog, yvars>>

\* VisitManager.finishField lines 43-46
FinishField ==
    /\ activeField' = NoField
    /\ held' = Detach(activeField, held)
    /\ persisted' = [present |-> TRUE, values |-> <<PyNone>>]
    /\ declaredVisit0' = -1
    /\ lastCall' = Call("finishField", None, 0, FALSE, None, NoVisit, <<>>,
                        activeField # NoField, None, NoVisit, NoField)
    /\ UNCHANGED <<gen2Last, mcsExposure, pfsConfigRows, configFiles, spsLog>>
    /\ UNCHANGED <<vvars, xvars, frameLog, yvars>>

\* VisitManager.newVisit lines 63-66, given the id the sequencer returned
NewVisitFor(id, caller, name) == FromCaller(id, caller, name)

\* VisitManager.getVisit lines 52-61; the command that called keeps the Visit
\* it got
GetVisit(caller) ==
    LET call(exc, ret, fetched, reconf) ==
            Call("getVisit", caller, 0, FALSE, exc, ret, fetched,
                 activeField # NoField, reconf,
                 IF reconf = "sps" THEN OwnVisit(activeField.visit["ag"])
                 ELSE NoVisit,
                 NoField)
    IN
    /\ IF activeField # NoField
       THEN IF caller \notin DOMAIN activeField.visit
            THEN \* self.visit[caller] raises KeyError (pfsField.py:90)
                 /\ lastCall' = call("KeyError", NoVisit, <<>>, None)
                 /\ UNCHANGED <<activeField, held, persisted, gen2Last,
                                spsLog>>
            ELSE IF ~IsVisitAvailableFor(activeField, caller) /\ ~gen2Up
            THEN \* newVisit (line 56) raises before reconfigure is called
                 /\ lastCall' = call(Gen2Error, NoVisit, <<>>, None)
                 /\ UNCHANGED <<activeField, held, persisted, gen2Last,
                                spsLog>>
            ELSE IF ~IsVisitAvailableFor(activeField, caller)
            THEN \E id \in Gen2Next :
                   LET new == NewVisitFor(id, caller, None)
                       f == Reconfigure(activeField, caller, new)
                   IN  /\ id <= MaxVisitId
                       /\ gen2Last' = id
                       /\ activeField' = f
                       /\ persisted' = PersistedKey(f)
                       /\ held' = FieldVisit(caller)
                       /\ spsLog' = IF caller = "sps"
                                    THEN Append(spsLog, f.visit[caller].visitId)
                                    ELSE spsLog
                       /\ lastCall' = call(None, FieldVisit(caller), <<id>>,
                                           caller)
            ELSE /\ held' = FieldVisit(caller)
                 /\ spsLog' = IF caller = "sps"
                              THEN Append(spsLog,
                                          activeField.visit[caller].visitId)
                              ELSE spsLog
                 /\ lastCall' = call(None, FieldVisit(caller), <<>>, None)
                 /\ UNCHANGED <<activeField, persisted, gen2Last>>
       ELSE IF ~gen2Up
       THEN \* newVisit (line 61) raises
            /\ lastCall' = call(Gen2Error, NoVisit, <<>>, None)
            /\ UNCHANGED <<activeField, held, persisted, gen2Last, spsLog>>
       ELSE \E id \in Gen2Next :
              LET new == NewVisitFor(id, caller, None)
              IN  /\ id <= MaxVisitId
                  /\ gen2Last' = id
                  /\ held' = OwnVisit(new)
                  /\ lastCall' = call(None, OwnVisit(new), <<id>>, None)
                  /\ UNCHANGED <<activeField, persisted, spsLog>>
    /\ UNCHANGED <<mcsExposure, pfsConfigRows, configFiles, declaredVisit0>>
    /\ UNCHANGED <<vvars, xvars, frameLog, yvars>>

(***************************************************************************)
(* What commands do with the Visit they hold, and the instrument.          *)
(***************************************************************************)
\* Visit.lock lines 65-67
Lock(v) == [v EXCEPT !.isActive = TRUE]
\* Visit.unlock lines 69-71
Unlock(v) == [v EXCEPT !.isActive = FALSE]
\* Visit.stop lines 73-75
Stop(v) == [v EXCEPT !.iAmDead = TRUE]

\* a method of the held Visit leaves that object as v
SetHeld(v) ==
    /\ IF held.kind = "field"
       THEN /\ activeField' = [activeField EXCEPT !.visit[held.role] = v]
            /\ held' = held
       ELSE /\ held' = OwnVisit(v)
            /\ activeField' = activeField
    /\ lastCall' = NoCall
    /\ UNCHANGED <<persisted, gen2Last, mcsExposure, pfsConfigRows,
                   configFiles, spsLog, declaredVisit0>>
    /\ UNCHANGED <<vvars, xvars, frameLog, yvars>>

HeldLock ==
    /\ held # NoVisit
    /\ SetHeld(Lock(Deref(activeField, held)))

HeldUnlock ==
    /\ held # NoVisit
    /\ SetHeld(Unlock(Deref(activeField, held)))

HeldStop ==
    /\ held # NoVisit
    /\ SetHeld(Stop(Deref(activeField, held)))

\* PfsField.lockVisit lines 198-202
FieldLockVisit ==
    /\ activeField # NoField
    /\ activeField' = [activeField EXCEPT
                         !.visit = [r \in DOMAIN @ |-> Lock(@[r])]]
    /\ lastCall' = NoCall
    /\ UNCHANGED <<held, persisted, gen2Last, mcsExposure, pfsConfigRows,
                   configFiles, spsLog, declaredVisit0>>
    /\ UNCHANGED <<vvars, xvars, frameLog, yvars>>

\* the command ends and lets go of its Visit
DropVisit ==
    /\ held # NoVisit
    /\ held' = NoVisit
    /\ lastCall' = NoCall
    /\ UNCHANGED <<activeField, persisted, gen2Last, mcsExposure,
                   pfsConfigRows, configFiles, spsLog, declaredVisit0>>
    /\ UNCHANGED <<vvars, xvars, frameLog, yvars>>

\* the MCS takes an exposure with the fps Visit a command holds: a row of
\* mcs_exposure
RecordMcsExposure ==
    /\ held # NoVisit
    /\ Deref(activeField, held).caller = "fps"
    /\ Deref(activeField, held).visitId \notin mcsExposure
    /\ mcsExposure' = mcsExposure \cup {Deref(activeField, held).visitId}
    /\ lastCall' = NoCall
    /\ UNCHANGED <<activeField, held, persisted, gen2Last, pfsConfigRows,
                   configFiles, spsLog, declaredVisit0>>
    /\ UNCHANGED <<vvars, xvars, frameLog, yvars>>


(***************************************************************************)
(* PfsField methods that commands call on the active field, the files the  *)
(* FPS writes, and the restart of the process.                             *)
(***************************************************************************)
\* what is observed of a call on the field or of a restart, beyond Call:
\* the visitId and forcePfsConfig arguments, the pfsConfigs handed to
\* ingestPfsConfig, the pfsConfig returned, the exception PfsField.reload
\* raised inside reloadField
FieldCall(op, design, vid, force, exc, reconf, ingested, copy, reloadExc) ==
    [op |-> op, caller |-> None, design |-> design, gen |-> FALSE,
     exc |-> exc, ret |-> NoVisit, fetched |-> <<>>,
     hadField |-> activeField # NoField, reconf |-> reconf,
     agWas |-> NoVisit, built |-> NoField,
     visitId |-> vid, force |-> force, ingested |-> ingested,
     copy |-> copy, reloadExc |-> reloadExc]

\* PfsField.setPfsConfig0 lines 186-196: the field as it leaves it; the
\* field is persisted as its last statement
SetPfsConfig0(f, pfsConfig0) == [f EXCEPT !.pfsConfig0 = pfsConfig0]

\* a makePfsConfig that synthesizes whenever pfsConfig0 is missing
SynthesisAlwaysAllowed(force) == TRUE

\* makePfsConfig line 135: if not forcePfsConfig: raise
SynthesisAllowed(force) == force

\* a makePfsConfig that never looks whether the fps Visit fell behind
FpsNeverBehind(f) == FALSE

\* a makePfsConfig that rebinds the fps role whatever its visit id
FpsAlwaysBehind(f) == TRUE

\* makePfsConfig line 144: self.fpsVisitId < self.pfsConfig0.visit
FpsFallsBehind(f) == f.visit["fps"].visitId < f.pfsConfig0.visit

\* makePfsConfig line 147
DesignMismatch(f) == f.pfsConfig0.pfsDesignId # f.pfsDesignId

\* a makePfsConfig that does not look at the status flags
ConvergenceNeverFailed(f) == FALSE

\* makePfsConfig line 156
ConvergenceFailed(f) == ConvergenceFailedFlag \in f.pfsConfig0.instStatusFlag

\* makePfsConfig line 166: self.pfsConfig0.copy(visit=visitId, ...,
\* visit0=self.pfsConfig0.visit)
CopyForVisit(cfg, vid) ==
    [cfg EXCEPT !.visit = vid, !.visit0 = cfg.visit]

\* ingestPfsConfig (line 141): a row of pfs_config for the pfsConfig's visit
Ingest(rows, cfg) == rows \cup {cfg.visit}

\* a reference to the Visit of a role once the field binds another object
\* to that role
DetachRole(f, ref, role) ==
    IF ref = FieldVisit(role) THEN OwnVisit(f.visit[role]) ELSE ref

\* the visit ids commands have at hand: those of the field's Visits and of
\* the Visit the command holds
VisitIdsAtHand ==
    (IF activeField = NoField THEN {}
     ELSE {activeField.visit[r].visitId : r \in DOMAIN activeField.visit})
        \cup (IF held = NoVisit THEN {}
              ELSE {Deref(activeField, held).visitId})

\* PfsField.makePfsConfig lines 129-166
MakePfsConfig(vid, force) ==
    /\ activeField # NoField
    /\ LET f0 == activeField
           missing == f0.pfsConfig0 = NoConfig
           call(f, exc, reconf, ingested, copy) ==
               FieldCall("makePfsConfig", f0.pfsDesignId, vid, force,
                         exc, reconf, ingested, copy, None)
       IN
       IF missing /\ ~SynthesisAllowed(force)
       THEN /\ lastCall' = call(f0, "RuntimeError: no pfsConfig0 found",
                                None, <<>>, NoConfig)
            /\ UNCHANGED <<activeField, held, persisted, pfsConfigRows>>
       ELSE LET f1 == IF missing
                      THEN SetPfsConfig0(f0,
                               FromPfsDesign(f0.pfsDesignId, vid))
                      ELSE f0
                ingested == IF missing THEN <<f1.pfsConfig0>> ELSE <<>>
                bump == missing /\ FpsFallsBehind(f1)
                f2 == IF bump
                      THEN Reconfigure(f1, "fps", FpsVisit(vid, "visit0"))
                      ELSE f1
                exc == IF DesignMismatch(f2) /\ ~force
                       THEN "RuntimeError: pfsConfig0 does not match"
                       ELSE IF ConvergenceFailed(f2) /\ ~force
                       THEN "RuntimeError: CONVERGENCE_FAILED"
                       ELSE None
            IN  /\ activeField' = f2
                /\ held' = IF bump THEN DetachRole(f0, held, "fps") ELSE held
                /\ persisted' = IF missing THEN PersistedKey(f2)
                                ELSE persisted
                /\ pfsConfigRows' = IF missing
                                    THEN Ingest(pfsConfigRows, f1.pfsConfig0)
                                    ELSE pfsConfigRows
                /\ lastCall' = call(f2, exc,
                                    IF bump THEN "fps" ELSE None, ingested,
                                    IF exc = None
                                    THEN CopyForVisit(f2.pfsConfig0, vid)
                                    ELSE NoConfig)
    /\ UNCHANGED <<gen2Last, mcsExposure, configFiles, spsLog,
                   declaredVisit0>>
    /\ UNCHANGED <<vvars, xvars, frameLog, yvars>>

\* PfsField.loadPfsConfig0 lines 168-184
LoadPfsConfig0With(designId, visit0, doIgnore) ==
    /\ activeField # NoField
    /\ LET call(exc) ==
               FieldCall("loadPfsConfig0", designId, visit0, FALSE, exc,
                         None, <<>>, NoConfig, None)
                   @@ [doIgnore |-> doIgnore]
       IN
       IF ~PfsConfigFileExists(designId, visit0)
       THEN \* lines 172-178
            /\ lastCall' = call(IF doIgnore THEN None
                                ELSE "FileNotFoundError")
            /\ UNCHANGED <<activeField, persisted>>
       ELSE IF ReadFails(designId, visit0)
       THEN \* lines 183-184: the exception is logged, the call returns
            /\ lastCall' = call(None)
            /\ UNCHANGED <<activeField, persisted>>
       ELSE LET f == SetPfsConfig0(activeField,
                                   FindPfsConfig(designId, visit0))
            IN  /\ activeField' = f
                /\ persisted' = PersistedKey(f)
                /\ lastCall' = call(None)
    /\ UNCHANGED <<held, gen2Last, mcsExposure, pfsConfigRows, configFiles,
                   spsLog, declaredVisit0>>
    /\ UNCHANGED <<vvars, xvars, frameLog, yvars>>

\* loadPfsConfig0 called by a command once the FPS has converged, with the
\* default doIgnore=False
LoadPfsConfig0(designId, visit0) ==
    LoadPfsConfig0With(designId, visit0, FALSE)

\* the newest date directory
Today == CHOOSE d \in dateDirs : \A e \in dateDirs : e <= d

\* the FPS converges on a field that has no pfsConfig0 yet and writes the
\* pfsConfig file of the active design and of the fps Visit's id, with the
\* status it reached, into the directory of the day
WritePfsConfigFile(flags) ==
    /\ activeField # NoField
    /\ activeField.pfsConfig0 = NoConfig
    /\ ~IsFile(Today, activeField.pfsDesignId,
               activeField.visit["fps"].visitId)
    /\ configFiles' = configFiles \cup
           {[dateDir |-> Today,
             pfsDesignId |-> activeField.pfsDesignId,
             visit |-> activeField.visit["fps"].visitId,
             instStatusFlag |-> flags,
             readable |-> TRUE]}
    /\ lastCall' = NoCall
    /\ UNCHANGED <<activeField, held, persisted, gen2Last, mcsExposure,
                   pfsConfigRows, spsLog, declaredVisit0>>
    /\ UNCHANGED <<vvars, xvars, frameLog, yvars>>

\* VisitManager.getField lines 36-41
GetField ==
    /\ lastCall' = FieldCall("getField", 0, 0, FALSE,
                             IF activeField = NoField THEN "RuntimeError"
                             ELSE None,
                             None, <<>>, NoConfig, None)
    /\ UNCHANGED <<activeField, held, persisted, gen2Last, mcsExposure,
                   pfsConfigRows, configFiles, spsLog, declaredVisit0>>
    /\ UNCHANGED <<vvars, xvars, frameLog, yvars>>

\* PfsField.reload lines 76-79: cls(iicActor, *loadKey('pfsField')); the
\* field it builds, or the exception it raises.  readable: the design files
\* can be read when the process starts
Reload(key, readable) ==
    IF ~key.present
    THEN [field |-> NoField, exc |-> "KeyError"]
    ELSE IF Len(key.values) < 4
    THEN [field |-> NoField, exc |-> "TypeError"]
    ELSE LET v == key.values
             designId == IF v[1].type = "str" THEN IntBase16(v[1].val)
                         ELSE v[1].val
         IN  IF ~readable \/ designId \notin DesignStore
             THEN [field |-> NoField, exc |-> "FileNotFoundError"]
             ELSE [field |-> PfsFieldInit(designId, v[2].val, v[3].val,
                                          v[4].val, v[5], v[6]),
                   exc |-> None]

\* an except clause that expects the missing key only
PropagatedUnlessKeyError(exc) == IF exc = "KeyError" THEN None ELSE exc

\* VisitManager.reloadField lines 16-19: the bare except lets nothing out
Propagated(exc) == None

\* VisitManager.reloadField lines 14-21
ReloadField(key, readable) ==
    LET r == Reload(key, readable)
    IN  [field |-> IF r.exc = None THEN r.field ELSE NoField,
         exc |-> Propagated(r.exc),
         reloadExc |-> r.exc]

\* the process restarts: VisitManager.__init__ lines 7-12; the commands and
\* the Visits they held are gone.  A pfsConfig0 loaded while the field is
\* rebuilt is persisted by setPfsConfig0 (pfsField.py:196)
Restart(readable) ==
    /\ LET r == ReloadField(persisted, readable)
       IN  /\ activeField' = (IF r.exc = None THEN r.field ELSE activeField)
           /\ persisted' = IF r.field # NoField
                              /\ r.field.pfsConfig0 # NoConfig
                           THEN PersistedKey(r.field)
                           ELSE persisted
           /\ lastCall' = FieldCall("restart", 0, 0, FALSE, r.exc, None,
                                    <<>>, NoConfig, r.reloadExc)
    /\ held' = NoVisit
    /\ declaredVisit0' = -1
    /\ UNCHANGED <<gen2Last, mcsExposure, pfsConfigRows, configFiles,
                   spsLog>>
    /\ UNCHANGED <<vvars, xvars, frameLog, yvars>>

(***************************************************************************)
(* The surroundings: the sequencer, the date directories, the files.       *)
(***************************************************************************)
\* the sequencer stops answering: fetchVisitFromGen2 raises from now on
Gen2GoesDown ==
    /\ gen2Up
    /\ gen2Up' = FALSE
    /\ lastCall' = NoCall
    /\ UNCHANGED <<activeField, held, persisted, gen2Last, mcsExposure,
                   pfsConfigRows, configFiles, spsLog, declaredVisit0>>
    /\ UNCHANGED <<vvars, designArms, dateDirs, frameLog, yvars>>

\* the sequencer answers again
Gen2ComesBack ==
    /\ ~gen2Up
    /\ gen2Up' = TRUE
    /\ lastCall' = NoCall
    /\ UNCHANGED <<activeField, held, persisted, gen2Last, mcsExposure,
                   pfsConfigRows, configFiles, spsLog, declaredVisit0>>
    /\ UNCHANGED <<vvars, designArms, dateDirs, frameLog, yvars>>

\* the last day for which the model creates a date directory
MaxDay == 9

\* a new day: a new directory /data/raw/<date>
NewDateDir ==
    /\ Today < MaxDay
    /\ dateDirs' = dateDirs \cup {Today + 1}
    /\ lastCall' = NoCall
    /\ UNCHANGED <<activeField, held, persisted, gen2Last, mcsExposure,
                   pfsConfigRows, configFiles, spsLog, declaredVisit0>>
    /\ UNCHANGED <<vvars, designArms, gen2Up, frameLog, yvars>>

\* a pfsConfig file is left truncated: PfsConfig.read raises on it
DamagePfsConfigFile(file) ==
    /\ file \in configFiles
    /\ file.readable
    /\ configFiles' = (configFiles \ {file})
                          \cup {[file EXCEPT !.readable = FALSE]}
    /\ lastCall' = NoCall
    /\ UNCHANGED <<activeField, held, persisted, gen2Last, mcsExposure,
                   pfsConfigRows, spsLog, declaredVisit0>>
    /\ UNCHANGED <<vvars, xvars, frameLog, yvars>>

(***************************************************************************)
(* More calls of commands on the Visit they hold and on the active field.  *)
(***************************************************************************)
\* the number of frame ids the model lets a command take from a Visit of the
\* manager (the overflow at 100 is the matter of SpecVisit)
MaxHeldFrames == 1

\* Visit.nextFrameId lines 50-56: the exception it raises
NextFrameIdRaises(v) ==
    IF v.iAmDead THEN "VisitAlreadyDone"
    ELSE IF v.frameId >= FrameLimit THEN "VisitOverflowed"
    ELSE None

\* Visit.nextFrameId lines 48-59 on the Visit a command holds, called by the
\* one thread of that command
HeldNextFrameId ==
    /\ held # NoVisit
    /\ LET v == Deref(activeField, held)
           exc == NextFrameIdRaises(v)
           after == IF exc = None THEN [v EXCEPT !.frameId = @ + 1] ELSE v
       IN  /\ v.frameId < MaxHeldFrames
           /\ IF held.kind = "field"
              THEN /\ activeField' =
                          [activeField EXCEPT !.visit[held.role] = after]
                   /\ held' = held
              ELSE /\ held' = OwnVisit(after)
                   /\ activeField' = activeField
           /\ lastCall' = Call("nextFrameId", v.caller, 0, FALSE, exc,
                               held', <<>>, activeField # NoField, None,
                               NoVisit, NoField)
                              @@ [frame |-> IF exc = None
                                            THEN <<v.visitId * FrameIdBase
                                                    + v.frameId>>
                                            ELSE <<>>]
           /\ frameLog' = IF exc = None
                          THEN frameLog
                                   \cup {<<v.caller, v.visitId * FrameIdBase
                                                         + v.frameId>>}
                          ELSE frameLog
    /\ UNCHANGED <<persisted, gen2Last, mcsExposure, pfsConfigRows,
                   configFiles, spsLog, declaredVisit0>>
    /\ UNCHANGED <<vvars, xvars, yvars>>

\* PfsField.getVisit lines 88-90, called on the active field by a command
FieldGetVisit(caller) ==
    /\ activeField # NoField
    /\ IF caller \in DOMAIN activeField.visit
       THEN /\ held' = FieldVisit(caller)
            /\ lastCall' = FieldCall("PfsField.getVisit", 0, 0, FALSE, None,
                                     None, <<>>, NoConfig, None)
                               @@ [role |-> caller]
       ELSE /\ held' = held
            /\ lastCall' = FieldCall("PfsField.getVisit", 0, 0, FALSE,
                                     "KeyError", None, <<>>, NoConfig, None)
                               @@ [role |-> caller]
    /\ UNCHANGED <<activeField, persisted, gen2Last, mcsExposure,
                   pfsConfigRows, configFiles, spsLog, declaredVisit0>>
    /\ UNCHANGED <<vvars, xvars, frameLog, yvars>>

\* PfsField.reconfigure lines 96-105, called on the active field by a
\* command with a Visit it made for the role from an id it has
FieldReconfigure(caller, vid) ==
    /\ activeField # NoField
    /\ LET newVisit == FromCaller(vid, caller, None)
           f == Reconfigure(activeField, caller, newVisit)
       IN  /\ activeField' = f
           /\ persisted' = PersistedKey(f)
           /\ held' = IF caller \in DOMAIN activeField.visit
                      THEN DetachRole(activeField,
                               IF caller = "sps"
                               THEN DetachRole(activeField, held, "ag")
                               ELSE held,
                               caller)
                      ELSE held
           /\ lastCall' = FieldCall("PfsField.reconfigure", 0, vid, FALSE,
                                    None, caller, <<>>, NoConfig, None)
                              @@ [role |-> caller]
    /\ UNCHANGED <<gen2Last, mcsExposure, pfsConfigRows, configFiles,
                   spsLog, declaredVisit0>>
    /\ UNCHANGED <<vvars, xvars, frameLog, yvars>>

\* PfsField.getGratingPosition lines 107-127, given self.pfsDesign.arms
GratingPosition(arms) ==
    LET lowRes == "r" \in arms
        medRes == "m" \in arms
    IN  IF lowRes /\ ~medRes THEN "low"
        ELSE IF medRes /\ ~lowRes THEN "med"
        ELSE None

\* PfsField.getGratingPosition called on the active field
GetGratingPosition ==
    /\ activeField # NoField
    /\ lastCall' = FieldCall("getGratingPosition", activeField.pfsDesignId,
                             0, FALSE, None, None, <<>>, NoConfig, None)
                       @@ [position |->
                             GratingPosition(
                                 designArms[activeField.pfsDesignId])]
    /\ UNCHANGED <<activeField, held, persisted, gen2Last, mcsExposure,
                   pfsConfigRows, configFiles, spsLog, declaredVisit0>>
    /\ UNCHANGED <<vvars, xvars, frameLog, yvars>>

(***************************************************************************)
(* The module python/ics/utils/visit.py, which defines VisitManager,       *)
(* Visit and PfsField a second time.                                       *)
(***************************************************************************)
\* visit.py:120-124 Visit.isAvailable, given isActive, the truth value of
\* isPopulated and isFrozen
LegacyIsAvailable(active, populated, frozen) ==
    LET used == active \/ (populated /\ ~frozen)
    IN  ~used

\* visit.py:257-262 AgVisit.__init__: self.isFrozen = True
LegacyAgIsFrozen == TRUE

\* visit.py:234-243 PfsField.getGratingPosition, given self.pfsDesign.arms
LegacyGratingPosition(arms) ==
    IF "r" \in arms THEN "low"
    ELSE IF "m" \in arms THEN "med"
    ELSE None

\* visit.py:245-254 loadPfsConfig inside the try of __init__ (lines 184-187):
\* the glob over all date directories must match exactly one file, and the
\* file must be readable; anything else leaves pfsConfig None
LegacyLoadPfsConfig(designId, visit0) ==
    LET paths == {file \in configFiles :
                     file.pfsDesignId = designId /\ file.visit = visit0}
    IN  IF Cardinality(paths) = 1 /\ (CHOOSE file \in paths : TRUE).readable
        THEN LET file == CHOOSE file \in paths : TRUE
             IN  PfsConfig(file.pfsDesignId, file.visit, file.instStatusFlag)
        ELSE NoConfig

\* visit.py:174-187 PfsField.__init__ through declareNew (lines 197-202);
\* the attribute pfsConfig is the field pfsConfig0 of the record
LegacyDeclareNew(designId, visit0) ==
    [pfsDesignId |-> designId,
     visit |-> [r \in FieldRoles |->
                  IF r = "ag" THEN AgVisit(visit0, "visit0")
                  ELSE IF r = "fps" THEN FpsVisit(visit0, "visit0")
                  ELSE SpsVisit(visit0, "visit0")],
     pfsConfig0 |-> LegacyLoadPfsConfig(designId, visit0)]

\* visit.py:209-213 PfsField.persist
LegacyPersistedKey(f) ==
    [present |-> TRUE,
     values |-> <<PyStr(FormatDesignId(f.pfsDesignId)),
                  PyInt(f.visit["ag"].visitId),
                  PyInt(f.visit["fps"].visitId),
                  PyInt(f.visit["sps"].visitId)>>]

\* visit.py:42-49 VisitManager.declareNewField
LegacyDeclareNewField(designId) ==
    /\ \E id \in Gen2Next :
        LET call(exc, built) ==
                Call("declareNewField", None, designId, TRUE, exc, NoVisit,
                     IF exc = Gen2Error THEN <<>> ELSE <<id>>,
                     activeField # NoField, None, NoVisit, built)
        IN
        /\ id <= MaxVisitId
        \* line 44: self.finishField()
        /\ held' = Detach(activeField, held)
        /\ IF ~gen2Up
           THEN \* line 46 raises
                /\ activeField' = NoField
                /\ declaredVisit0' = -1
                /\ lastCall' = call(Gen2Error, NoField)
                /\ UNCHANGED <<gen2Last, persisted>>
           ELSE IF designId \notin DesignStore
           THEN \* PfsDesign.read raises in PfsField.__init__ (line 181)
                /\ gen2Last' = id
                /\ activeField' = NoField
                /\ declaredVisit0' = -1
                /\ lastCall' = call("FileNotFoundError", NoField)
                /\ UNCHANGED persisted
           ELSE LET new == LegacyDeclareNew(designId, id)
                IN  /\ gen2Last' = id
                    /\ activeField' = new
                    /\ persisted' = LegacyPersistedKey(new)
                    /\ declaredVisit0' = id
                    /\ lastCall' = call(None, new)
    /\ UNCHANGED <<mcsExposure, pfsConfigRows, configFiles, spsLog>>
    /\ UNCHANGED <<vvars, xvars, frameLog, yvars>>

\* visit.py:58-60 VisitManager.finishField
LegacyFinishField ==
    /\ activeField' = NoField
    /\ held' = Detach(activeField, held)
    /\ declaredVisit0' = -1
    /\ lastCall' = Call("finishField", None, 0, FALSE, None, NoVisit, <<>>,
                        activeField # NoField, None, NoVisit, NoField)
    /\ UNCHANGED <<persisted, gen2Last, mcsExposure, pfsConfigRows,
                   configFiles, spsLog>>
    /\ UNCHANGED <<vvars, xvars, frameLog, yvars>>

\* visit.py:234-243 PfsField.getGratingPosition called on the active field
LegacyGetGratingPosition ==
    /\ activeField # NoField
    /\ lastCall' = FieldCall("getGratingPosition", activeField.pfsDesignId,
                             0, FALSE, None, None, <<>>, NoConfig, None)
                       @@ [position |->
                             LegacyGratingPosition(
                                 designArms[activeField.pfsDesignId])]
    /\ UNCHANGED <<activeField, held, persisted, gen2Last, mcsExposure,
                   pfsConfigRows, configFiles, spsLog, declaredVisit0>>
    /\ UNCHANGED <<vvars, xvars, frameLog, yvars>>
(***************************************************************************)
(* The controller thread, the lamp controller, the BufferedSocket, the PDU *)
(* driver and the FitsWriter process after construction.                   *)
(***************************************************************************)
\* no message: the thread waits on its queue
NoMsg == [cmd |-> 0, kind |-> "none"]

\* no submission yet
NoSubmit == [cmd |-> 0, kind |-> "none", exc |-> None, queued |-> FALSE]

\* LockedThread.__init__ lines 11-13: self.onGoingCmd = False, and the empty
\* queue of the QThread
ThreadInit ==
    /\ thrQueue = <<>>
    /\ thrRunning = NoMsg
    /\ onGoingCmd = <<>>
    /\ thrLast = NoSubmit

\* lamps aten.__init__ line 46, digitalLoggers.__init__ line 40:
\* self.abortWarmup = False
LampInit ==
    /\ abortWarmup = FALSE
    /\ abortPc = "idle"
    /\ waited = 0
    /\ abortEnded = "none"
    /\ goLog = <<>>

\* no getOneResponse call yet
NoResponse == [ret |-> <<>>, timedOut |-> FALSE, called |-> FALSE]

\* the default EOL of BufferedSocket.__init__ (line 180)
DefaultEOL == <<"\n">>

\* BufferedSocket.__init__ lines 180-188: self.EOL = EOL, self.buffer = '',
\* on a socket whose recv() will return the given chunks
SocketInit(eol, chunks) ==
    /\ EOL = eol
    /\ sockSent = chunks
    /\ sockPending = chunks
    /\ buffer = <<>>
    /\ sockReturned = <<>>
    /\ sockLast = NoResponse

\* no sendOneCommand call yet in the running safeOneCommand call
NoAttempt ==
    [sends |-> 0, failed |-> 0, last |-> None, reply |-> <<>>,
     sockWas |-> None]

\* no safeOneCommand call has ended
NoResult == [kind |-> "none", value |-> None]

\* pdu aten.__init__ line 39 (self.loginTime = 0) and EthComm.__init__ line 9
\* (self.sock = None); the clock of the host is never 0
PduInit ==
    /\ sock = None
    /\ loginTime = 0
    /\ now = 1
    /\ pduPc = "idle"
    /\ nAttempt = 0
    /\ pduLog = NoAttempt
    /\ pduResult = NoResult

\* FitsWriter.__init__ lines 41-49, with the empty queues of FitsBuffer
\* (lines 391-392)
FitsInit ==
    /\ inQ = <<>>
    /\ outQ = <<>>
    /\ currentFits = None
    /\ currentPath = None
    /\ tempPath = None
    /\ fwAlive = TRUE
    /\ taken = <<>>

\* no thread is in VisitManager.getVisit
CallsInit ==
    /\ gvPc = [t \in Threads |-> "idle"]
    /\ gvCaller = [t \in Threads |-> None]
    /\ gvNew = [t \in Threads |-> NoVisit]
    /\ gvRet = [t \in Threads |-> NoVisit]
    /\ gvOverlap = [t \in Threads |-> FALSE]

\* the parts of the package a specification does not exercise stay as
\* constructed
OthersInit ==
    /\ ThreadInit
    /\ LampInit
    /\ SocketInit(DefaultEOL, <<>>)
    /\ PduInit
    /\ FitsInit
    /\ CallsInit

(***************************************************************************)
(* Specifications.                                                         *)
(***************************************************************************)
\* VisitManager.__init__ lines 7-12 on an actor without persisted keywords:
\* reloadField finds no 'pfsField' key and returns None
ManagerInit ==
    /\ activeField = NoField
    /\ held = NoVisit
    /\ persisted = NoKey
    /\ gen2Last = 0
    /\ mcsExposure = {}
    /\ pfsConfigRows = {}
    /\ configFiles = {}
    /\ lastCall = NoCall
    /\ spsLog = <<>>
    /\ declaredVisit0 = -1
    /\ frameLog = {}

\* the surroundings the other specifications start from and stay in: design
\* files for the red and for the medium resolution arm, the directory of the
\* day, a sequencer that answers
SurroundingsInit ==
    /\ designArms = [d \in DesignStore |->
                        IF d = 26 THEN {"b", "m", "n"} ELSE {"b", "r", "n"}]
    /\ dateDirs = {1}
    /\ gen2Up = TRUE

InitVisit ==
    VisitInit({1, 2}) /\ ManagerInit /\ SurroundingsInit /\ OthersInit

SpecVisit == InitVisit /\ [][NextVisit]_vars

Init == VisitInit({1}) /\ ManagerInit /\ SurroundingsInit /\ OthersInit

\* declareNewField(pfsDesignId, genVisit0=True): callers use the default
GenVisit0Args == {TRUE}

Next ==
    \/ \E d \in DesignIds, g \in GenVisit0Args : DeclareNewField(d, g)
    \/ FinishField
    \/ \E c \in Callers : GetVisit(c)
    \/ HeldLock
    \/ HeldUnlock
    \/ HeldStop
    \/ FieldLockVisit
    \/ DropVisit
    \/ RecordMcsExposure

Spec == Init /\ [][Next]_vars


(***************************************************************************)
(* The active field with its pfsConfig0 and its persisted record.  The     *)
(* Visits are taken and replaced but not locked or stopped by hand here.   *)
(***************************************************************************)
\* the roles whose commands ask for a Visit here
FieldCallers == {"fps", "sps"}

\* largest visit id the sequencer hands out under SpecField and SpecRestart
MaxFieldVisitId == 2

\* the pfsConfig files a command asks loadPfsConfig0 for: those on disk and
\* the one of the active design and fps visit
LoadArgs ==
    {<<file.pfsDesignId, file.visit>> : file \in configFiles}
        \cup (IF activeField = NoField THEN {}
              ELSE {<<activeField.pfsDesignId,
                      activeField.visit["fps"].visitId>>})

NextField ==
    \/ /\ \E d \in DesignStore, g \in GenVisit0Args : DeclareNewField(d, g)
       /\ gen2Last' <= MaxFieldVisitId
    \/ /\ \E c \in FieldCallers : GetVisit(c)
       /\ gen2Last' <= MaxFieldVisitId
    \/ RecordMcsExposure
    \/ \E v \in VisitIdsAtHand, force \in BOOLEAN : MakePfsConfig(v, force)
    \/ \E a \in LoadArgs : LoadPfsConfig0(a[1], a[2])
    \/ \E flags \in StatusFlags : WritePfsConfigFile(flags)

SpecField == Init /\ [][NextField]_vars

(***************************************************************************)
(* The life of the manager over restarts of the process: fields are        *)
(* declared, reconfigured, given a pfsConfig0, finished, and the manager   *)
(* is constructed again from the persisted record.                         *)
(***************************************************************************)
NextRestart ==
    \/ /\ \E d \in DesignStore, g \in GenVisit0Args : DeclareNewField(d, g)
       /\ gen2Last' <= MaxFieldVisitId
    \/ FinishField
    \/ /\ \E c \in FieldCallers : GetVisit(c)
       /\ gen2Last' <= MaxFieldVisitId
    \/ \E v \in VisitIdsAtHand : MakePfsConfig(v, TRUE)
    \/ \E a \in LoadArgs : LoadPfsConfig0(a[1], a[2])
    \/ WritePfsConfigFile({})
    \/ GetField
    \/ \E readable \in BOOLEAN : Restart(readable)

SpecRestart == Init /\ [][NextRestart]_vars

(***************************************************************************)
(* Availability of the Visits: fields declared with and without an id of   *)
(* the sequencer, Visits taken and locked, exposures and pfsConfigs        *)
(* recorded under their ids.                                               *)
(***************************************************************************)
\* declareNewField(pfsDesignId, genVisit0): both values of genVisit0
AnyGenVisit0 == BOOLEAN

\* the design declared here
OneDesign == {43981}

\* largest visit id the sequencer hands out under SpecAvail and SpecRoles
MaxAvailVisitId == 1

NextAvail ==
    \/ /\ \E d \in OneDesign, g \in AnyGenVisit0 : DeclareNewField(d, g)
       /\ gen2Last' <= MaxAvailVisitId
    \/ /\ \E c \in Callers : GetVisit(c)
       /\ gen2Last' <= MaxAvailVisitId
    \/ HeldLock
    \/ HeldUnlock
    \/ RecordMcsExposure
    \/ \E v \in VisitIdsAtHand : MakePfsConfig(v, TRUE)

SpecAvail == Init /\ [][NextAvail]_vars

(***************************************************************************)
(* The life of a Visit a command holds: locked, used for frame ids,        *)
(* stopped, replaced in the field by getVisit or by makePfsConfig.         *)
(***************************************************************************)
NextFrames ==
    \/ /\ \E d \in OneDesign, g \in GenVisit0Args : DeclareNewField(d, g)
       /\ gen2Last' <= MaxFieldVisitId
    \/ /\ \E c \in FieldCallers : GetVisit(c)
       /\ gen2Last' <= MaxFieldVisitId
    \/ HeldLock
    \/ HeldUnlock
    \/ HeldStop
    \/ HeldNextFrameId
    \/ \E v \in VisitIdsAtHand : MakePfsConfig(v, TRUE)

SpecFrames == Init /\ [][NextFrames]_vars

(***************************************************************************)
(* The roles of the active field: calls of the manager and direct calls of *)
(* PfsField.getVisit and PfsField.reconfigure with every caller name.      *)
(***************************************************************************)
NextRoles ==
    \/ /\ \E d \in OneDesign, g \in GenVisit0Args : DeclareNewField(d, g)
       /\ gen2Last' <= MaxAvailVisitId
    \/ /\ \E c \in Callers : GetVisit(c)
       /\ gen2Last' <= MaxAvailVisitId
    \/ \E c \in Callers : FieldGetVisit(c)
    \/ \E c \in Callers, v \in VisitIdsAtHand : FieldReconfigure(c, v)

SpecRoles == Init /\ [][NextRoles]_vars

(***************************************************************************)
(* A sequencer that may not answer.                                        *)
(***************************************************************************)
NextGen2 ==
    \/ /\ \E d \in DesignStore, g \in AnyGenVisit0 : DeclareNewField(d, g)
       /\ gen2Last' <= MaxFieldVisitId
    \/ FinishField
    \/ /\ \E c \in Callers : GetVisit(c)
       /\ gen2Last' <= MaxFieldVisitId
    \/ HeldLock
    \/ Gen2GoesDown
    \/ Gen2ComesBack

SpecGen2 == Init /\ [][NextGen2]_vars

(***************************************************************************)
(* The pfsConfig files over the days: date directories are created, files  *)
(* are written into the directory of the day, some are damaged, and        *)
(* loadPfsConfig0 looks for them.                                          *)
(***************************************************************************)
\* the values of doIgnore
AnyDoIgnore == BOOLEAN

\* the days on which the FPS converges and writes its file
WriteDays == {1, 2, 9}

NextDirs ==
    \/ /\ \E d \in OneDesign, g \in GenVisit0Args : DeclareNewField(d, g)
       /\ gen2Last' <= MaxAvailVisitId
    \/ \E a \in LoadArgs, doIgnore \in AnyDoIgnore :
           LoadPfsConfig0With(a[1], a[2], doIgnore)
    \/ /\ Today \in WriteDays
       /\ \E flags \in StatusFlags : WritePfsConfigFile(flags)
    \/ \E file \in configFiles : DamagePfsConfigFile(file)
    \/ NewDateDir

SpecDirs == Init /\ [][NextDirs]_vars

(***************************************************************************)
(* Design files with every set of arms.                                    *)
(***************************************************************************)
\* the arms the design files may list
InitArms ==
    /\ VisitInit({1})
    /\ ManagerInit
    /\ designArms \in [DesignStore -> SUBSET Arms]
    /\ dateDirs = {1}
    /\ gen2Up = TRUE
    /\ OthersInit

NextGrating ==
    \/ /\ \E d \in DesignStore, g \in GenVisit0Args : DeclareNewField(d, g)
       /\ gen2Last' <= MaxAvailVisitId
    \/ FinishField
    \/ GetGratingPosition

SpecGrating == InitArms /\ [][NextGrating]_vars

(***************************************************************************)
(* The VisitManager and the PfsField of visit.py.                          *)
(***************************************************************************)
NextLegacy ==
    \/ /\ \E d \in DesignStore : LegacyDeclareNewField(d)
       /\ gen2Last' <= MaxAvailVisitId
    \/ LegacyFinishField
    \/ LegacyGetGratingPosition
    \/ Gen2GoesDown
    \/ Gen2ComesBack

SpecLegacy == InitArms /\ [][NextLegacy]_vars
(***************************************************************************)
(* VisitManager.getVisit statement by statement, called by several threads *)
(* on the same manager: nothing in getVisit or in PfsField.reconfigure     *)
(* takes a lock.                                                           *)
(***************************************************************************)
\* the sequencer ids the model lets the interleaved calls fetch
MaxRaceVisitId == 4

\* a getVisit call of thread t is between its first and its last statement
InGetVisit(t) == gvPc[t] \notin {"idle", "done"}

\* the manager state the statements of getVisit leave alone
GvFrame ==
    /\ UNCHANGED <<held, mcsExposure, pfsConfigRows, configFiles, lastCall,
                   spsLog, declaredVisit0>>
    /\ UNCHANGED <<vvars, xvars, frameLog>>
    /\ UNCHANGED <<tvars, lvars, svars, pvars, fvars>>

\* getVisit lines 54-55: if self.activeField: if not
\* self.activeField.isVisitAvailableFor(caller)
GvBegin(t, caller) ==
    /\ ~InGetVisit(t)
    /\ gvPc' = [gvPc EXCEPT ![t] =
                   IF activeField = NoField THEN "newVisitNoField"
                   ELSE IF ~IsVisitAvailableFor(activeField, caller)
                   THEN "newVisit"
                   ELSE "return"]
    /\ gvCaller' = [gvCaller EXCEPT ![t] = caller]
    /\ gvNew' = [gvNew EXCEPT ![t] = NoVisit]
    /\ gvRet' = [gvRet EXCEPT ![t] = NoVisit]
    /\ gvOverlap' = [u \in Threads |->
                        IF u = t THEN \E o \in Threads \ {t} : InGetVisit(o)
                        ELSE gvOverlap[u] \/ InGetVisit(u)]
    /\ UNCHANGED <<activeField, persisted, gen2Last>>
    /\ GvFrame

\* getVisit line 56: new = self.newVisit(caller, name=name)
GvNewVisit(t) ==
    /\ gvPc[t] = "newVisit"
    /\ \E id \in Gen2Next :
          /\ gen2Last' = id
          /\ gvNew' = [gvNew EXCEPT ![t] = NewVisitFor(id, gvCaller[t], None)]
    /\ gvPc' = [gvPc EXCEPT ![t] = "reconfigure"]
    /\ UNCHANGED <<activeField, persisted, gvCaller, gvRet, gvOverlap>>
    /\ GvFrame

\* getVisit line 57: self.activeField.reconfigure(caller=caller,
\* newVisit=new), which persists the field
GvReconfigure(t) ==
    /\ gvPc[t] = "reconfigure"
    /\ activeField' = Reconfigure(activeField, gvCaller[t], gvNew[t])
    /\ persisted' = PersistedKey(activeField')
    /\ gvPc' = [gvPc EXCEPT ![t] = "return"]
    /\ UNCHANGED <<gen2Last, gvCaller, gvNew, gvRet, gvOverlap>>
    /\ GvFrame

\* getVisit line 59: return self.activeField.getVisit(caller)
GvReturn(t) ==
    /\ gvPc[t] = "return"
    /\ gvRet' = [gvRet EXCEPT ![t] = activeField.visit[gvCaller[t]]]
    /\ gvPc' = [gvPc EXCEPT ![t] = "done"]
    /\ UNCHANGED <<activeField, persisted, gen2Last, gvCaller, gvNew,
                   gvOverlap>>
    /\ GvFrame

\* getVisit line 61, without an active field: return self.newVisit(caller,
\* name=name)
GvReturnNew(t) ==
    /\ gvPc[t] = "newVisitNoField"
    /\ \E id \in Gen2Next :
          /\ gen2Last' = id
          /\ gvNew' = [gvNew EXCEPT ![t] = NewVisitFor(id, gvCaller[t], None)]
          /\ gvRet' = [gvRet EXCEPT ![t] = NewVisitFor(id, gvCaller[t], None)]
    /\ gvPc' = [gvPc EXCEPT ![t] = "done"]
    /\ UNCHANGED <<activeField, persisted, gvCaller, gvOverlap>>
    /\ GvFrame

\* the threads call getVisit while fields are declared between the calls
NextRace ==
    \/ /\ \A t \in Threads : ~InGetVisit(t)
       /\ \E d \in OneDesign, g \in GenVisit0Args : DeclareNewField(d, g)
       /\ gen2Last' <= MaxRaceVisitId
    \/ \E t \in Threads, c \in FieldCallers : GvBegin(t, c)
    \/ /\ \E t \in Threads : GvNewVisit(t)
       /\ gen2Last' <= MaxRaceVisitId
    \/ \E t \in Threads : GvReconfigure(t)
    \/ \E t \in Threads : GvReturn(t)
    \/ /\ \E t \in Threads : GvReturnNew(t)
       /\ gen2Last' <= MaxRaceVisitId

SpecRace == Init /\ [][NextRace]_vars

(***************************************************************************)
(* The frame ids of the Visits of the manager over restarts of the         *)
(* process: commands get a Visit, lock it, take frame ids from it and      *)
(* release it, and the manager is constructed again from the persisted     *)
(* record.                                                                 *)
(***************************************************************************)
NextReload ==
    \/ /\ \E d \in OneDesign, g \in GenVisit0Args : DeclareNewField(d, g)
       /\ gen2Last' <= MaxFieldVisitId
    \/ /\ \E c \in FieldCallers : GetVisit(c)
       /\ gen2Last' <= MaxFieldVisitId
    \/ HeldLock
    \/ HeldUnlock
    \/ HeldNextFrameId
    \/ \E readable \in BOOLEAN : Restart(readable)

SpecReload == Init /\ [][NextReload]_vars

(***************************************************************************)
(* The decorators of ics/utils/threading.py on a controller thread         *)
(* (LockedThread): commands are submitted by the thread that dispatches    *)
(* the actor's commands and called, one at a time, by the controller       *)
(* thread.                                                                 *)
(***************************************************************************)
\* the number of commands the model submits to the thread
MaxCmds == 4

\* locking.isLocked lines 68-72: return thread.onGoingCmd (a command object
\* is true, False is not)
IsLocked == onGoingCmd # <<>>

\* the state of the other parts, which the thread leaves alone
ThreadFrame ==
    /\ UNCHANGED <<vvars, mvars, xvars, frameLog>>
    /\ UNCHANGED <<svars, pvars, fvars, cvars>>

\* checkAndPut lines 84-89 around a function wrapped by blocking: raise
\* RuntimeWarning if the thread is locked, put the call on the queue if not
SubmitBlocking(cmd) ==
    /\ cmd = thrLast.cmd + 1
    /\ IF IsLocked
       THEN /\ thrLast' = [cmd |-> cmd, kind |-> "blocking",
                           exc |-> "RuntimeWarning", queued |-> FALSE]
            /\ UNCHANGED thrQueue
       ELSE /\ thrQueue' = Append(thrQueue, [cmd |-> cmd, kind |-> "blocking"])
            /\ thrLast' = [cmd |-> cmd, kind |-> "blocking",
                           exc |-> None, queued |-> TRUE]
    /\ UNCHANGED <<thrRunning, onGoingCmd, lvars>>
    /\ ThreadFrame

\* putMsg lines 18-20 around a function wrapped by threaded: put the call on
\* the queue
SubmitThreaded(cmd) ==
    /\ cmd = thrLast.cmd + 1
    /\ thrQueue' = Append(thrQueue, [cmd |-> cmd, kind |-> "threaded"])
    /\ thrLast' = [cmd |-> cmd, kind |-> "threaded",
                   exc |-> None, queued |-> TRUE]
    /\ UNCHANGED <<thrRunning, onGoingCmd, lvars>>
    /\ ThreadFrame

\* the thread takes the oldest message of its queue and calls it; the
\* wrapper of blocking (lines 98-99) starts with locking.lock(thread, cmd)
ThreadGet ==
    /\ thrRunning = NoMsg
    /\ thrQueue # <<>>
    /\ thrRunning' = Head(thrQueue)
    /\ thrQueue' = Tail(thrQueue)
    /\ onGoingCmd' = IF Head(thrQueue).kind = "threaded" THEN onGoingCmd
                     ELSE <<Head(thrQueue).cmd>>
    /\ UNCHANGED <<thrLast, lvars>>
    /\ ThreadFrame

\* the function the thread called returns or raises; the wrapper of blocking
\* (lines 100-103) ends with locking.unlock(thread) in both cases
ThreadDone ==
    /\ thrRunning.kind \in {"blocking", "threaded"}
    /\ thrRunning' = NoMsg
    /\ onGoingCmd' = IF thrRunning.kind = "threaded" THEN onGoingCmd
                     ELSE <<>>
    /\ UNCHANGED <<thrQueue, thrLast, lvars>>
    /\ ThreadFrame

NextThread ==
    \/ \E cmd \in 1..MaxCmds : SubmitBlocking(cmd)
    \/ \E cmd \in 1..MaxCmds : SubmitThreaded(cmd)
    \/ ThreadGet
    \/ ThreadDone

SpecThread == Init /\ [][NextThread]_vars

(***************************************************************************)
(* The lamp controllers (sps/lamps/controllers/aten.py, digitalLoggers.py) *)
(* on their thread: the go sequence of LampsCmd and doAbort, which the     *)
(* abort command calls from the thread that dispatches the commands.       *)
(***************************************************************************)
\* what the lamp controller leaves alone
LampFrame ==
    /\ UNCHANGED <<vvars, mvars, xvars, frameLog>>
    /\ UNCHANGED <<svars, pvars, fvars, cvars>>

\* LampsCmd.go lines 155-174 with lamps configured: raise RuntimeWarning if
\* the controller thread is locked, submit _go (wrapped by blocking) if not
SubmitGo(cmd) ==
    /\ cmd = thrLast.cmd + 1
    /\ IF IsLocked
       THEN /\ thrLast' = [cmd |-> cmd, kind |-> "go",
                           exc |-> "RuntimeWarning", queued |-> FALSE]
            /\ UNCHANGED thrQueue
       ELSE /\ thrQueue' = Append(thrQueue, [cmd |-> cmd, kind |-> "go"])
            /\ thrLast' = [cmd |-> cmd, kind |-> "go",
                           exc |-> None, queued |-> TRUE]
    /\ UNCHANGED <<thrRunning, onGoingCmd, lvars>>
    /\ LampFrame

\* LampsCmd._go lines 144-153 called by the controller thread, after its
\* delay: if not self.controller.abortWarmup: triggering; then the wrapper
\* of blocking unlocks the thread
GoRun ==
    /\ thrRunning.kind = "go"
    /\ goLog' = Append(goLog, [cmd |-> thrRunning.cmd,
                               triggered |-> ~abortWarmup,
                               aborting |-> abortPc # "idle"])
    /\ thrRunning' = NoMsg
    /\ onGoingCmd' = <<>>
    /\ UNCHANGED <<thrQueue, thrLast, abortWarmup, abortPc, waited,
                   abortEnded>>
    /\ LampFrame

\* doAbort line 306 (digitalLoggers line 294): self.abortWarmup = True, and
\* the call of waitForCommandToFinish (fsmThread.py:30-32)
DoAbortBegin ==
    /\ abortPc = "idle"
    /\ abortWarmup' = TRUE
    /\ abortPc' = "waiting"
    /\ waited' = 0
    /\ abortEnded' = "none"
    /\ UNCHANGED <<tvars, goLog>>
    /\ LampFrame

\* one turn of the loop of waitForCommandToFinish (fsmThread.py:33-38) and
\* what follows it in doAbort (lines 310-312): the thread is not locked and
\* doAbort clears the flag and returns, or the time limit has passed and
\* RuntimeError leaves doAbort, or the caller sleeps
DoAbortWait ==
    /\ abortPc = "waiting"
    /\ IF ~IsLocked
       THEN /\ abortWarmup' = FALSE
            /\ abortPc' = "idle"
            /\ abortEnded' = "returned"
            /\ UNCHANGED waited
       ELSE IF waited > TimeLimToFinish
       THEN /\ abortPc' = "idle"
            /\ abortEnded' = "raised"
            /\ UNCHANGED <<abortWarmup, waited>>
       ELSE /\ waited' = waited + 1
            /\ UNCHANGED <<abortWarmup, abortPc, abortEnded>>
    /\ UNCHANGED <<tvars, goLog>>
    /\ LampFrame

NextLamps ==
    \/ \E cmd \in 1..MaxCmds : SubmitGo(cmd)
    \/ ThreadGet
    \/ GoRun
    \/ DoAbortBegin
    \/ DoAbortWait

SpecLamps == Init /\ [][NextLamps]_vars

(***************************************************************************)
(* BufferedSocket (tcp/bufferedSocket.py): the input of a socket blocked   *)
(* into lines.  A string is the sequence of its characters.                *)
(***************************************************************************)
\* the number of characters the peer sends
MaxStream == 4

\* the characters of the streams: a letter and the two characters of '\r\n'
Chars == {"a", "\r", "\n"}

\* the EOL sequences of the model: the default '\n' and the '\r\n' of EthComm
EOLs == {<<"\n">>, <<"\r", "\n">>}

\* Python s[:k] and s[k:]
Upto(s, k) == SubSeq(s, 1, k)
From(s, k) == SubSeq(s, k + 1, Len(s))

\* Python str.find: the lowest index (from 0) at which sub starts in s, -1
\* if it is not in s
Find(s, sub) ==
    LET at == {i \in 0..(Len(s) - Len(sub)) :
                   SubSeq(s, i + 1, i + Len(sub)) = sub}
    IN  IF at = {} THEN -1
        ELSE CHOOSE i \in at : \A j \in at : i <= j

\* the strings of n characters
Strings(n) == [1..n -> Chars]

\* every way to cut the string s into non-empty chunks
RECURSIVE Chunkings(_)
Chunkings(s) ==
    IF s = <<>> THEN {<<>>}
    ELSE UNION {{<<Upto(s, k)>> \o rest : rest \in Chunkings(From(s, k))} :
                   k \in 1..Len(s)}

\* a getOneResponse that drops one character after the line
RestAfterOneChar(buf, eolAt, eol) == From(buf, eolAt + 1)

\* getOneResponse line 240: self.buffer[eolAt + len(self.EOL):]
RestOfBuffer(buf, eolAt, eol) == From(buf, eolAt + Len(eol))

\* the loop of getOneResponse (lines 222-235) over the chunks that arrive
\* before getOutput times out: self.buffer += more until the buffer holds an
\* EOL; IOError of getOutput (line 203) ends the call (line 232)
RECURSIVE ReadLoop(_, _, _)
ReadLoop(buf, chunks, eol) ==
    IF Find(buf, eol) # -1
    THEN [buffer |-> buf, left |-> chunks, timedOut |-> FALSE]
    ELSE IF chunks = <<>>
    THEN [buffer |-> buf, left |-> chunks, timedOut |-> TRUE]
    ELSE ReadLoop(buf \o Head(chunks), Tail(chunks), eol)

\* what the socket leaves alone
SocketFrame ==
    /\ UNCHANGED <<vvars, mvars, xvars, frameLog>>
    /\ UNCHANGED <<tvars, lvars, pvars, fvars, cvars>>

\* BufferedSocket.getOneResponse lines 207-242, while the next inTime chunks
\* arrive within the timeout of getOutput
GetOneResponse(inTime) ==
    /\ inTime \in 0..Len(sockPending)
    /\ LET r == ReadLoop(buffer, Upto(sockPending, inTime), EOL)
           eolAt == Find(r.buffer, EOL)
           ret == Upto(r.buffer, eolAt)
       IN  /\ sockPending' = From(sockPending, inTime - Len(r.left))
           /\ IF r.timedOut
              THEN /\ buffer' = r.buffer
                   /\ sockLast' = [ret |-> <<>>, timedOut |-> TRUE,
                                   called |-> TRUE]
                   /\ UNCHANGED sockReturned
              ELSE /\ buffer' = RestOfBuffer(r.buffer, eolAt, EOL)
                   /\ sockLast' = [ret |-> ret, timedOut |-> FALSE,
                                   called |-> TRUE]
                   /\ sockReturned' = Append(sockReturned, ret)
    /\ UNCHANGED <<EOL, sockSent>>
    /\ SocketFrame

\* a BufferedSocket for each EOL, each stream and each way the stream is cut
\* into the chunks recv() returns
InitSocket ==
    /\ VisitInit({1})
    /\ ManagerInit
    /\ SurroundingsInit
    /\ ThreadInit
    /\ LampInit
    /\ PduInit
    /\ FitsInit
    /\ CallsInit
    /\ \E n \in 0..MaxStream :
          \E s \in Strings(n), eol \in EOLs :
              \E chunks \in Chunkings(s) : SocketInit(eol, chunks)

NextSocket == \E inTime \in 0..MaxStream : GetOneResponse(inTime)

SpecSocket == InitSocket /\ [][NextSocket]_vars

(***************************************************************************)
(* The PDU driver (sps/pdu/controllers/aten.py): safeOneCommand with its   *)
(* retries, over a telnet session that expires and a link that fails.      *)
(***************************************************************************)
\* the last second of the clock of the model
MaxNow == 56

\* aten.sessionExpired lines 55-56
SessionExpired == loginTime # 0 /\ (now - loginTime) > LoginTimeout

\* what a sendOneCommand call can end with: socket.connect raises in
\* connectSock (line 219), authenticate raises (lines 231-239), sock.sendall
\* raises in sendAll (bufferedSocket.py:92-97), no reply (line 204), no echo
\* (line 207), or the reply (line 209)
Outcomes == {"connect", "login", "sendall", "noReply", "notEchoed", "ok"}

\* the exception of each outcome that is not the reply
ErrorOf(outcome) ==
    IF outcome = "noReply" THEN "IOError"
    ELSE IF outcome = "notEchoed" THEN "RuntimeError"
    ELSE "socket.error"

\* a safeOneCommand that retries once more
MayRetryOnceMore(n) == n <= MaxIOAttempt

\* safeOneCommand line 184: if nAttempt < self.maxIOAttempt
MayRetry(n) == n < MaxIOAttempt

\* what the driver leaves alone
PduFrame ==
    /\ UNCHANGED <<vvars, mvars, xvars, frameLog>>
    /\ UNCHANGED <<tvars, lvars, svars, fvars, cvars>>

\* time passes between two commands
Tick(d) ==
    /\ pduPc = "idle"
    /\ now + d <= MaxNow
    /\ now' = now + d
    /\ UNCHANGED <<sock, loginTime, pduPc, nAttempt, pduLog, pduResult>>
    /\ PduFrame

\* a command calls safeOneCommand(cmdStr, cmd=cmd), nAttempt = 0
SafeOneCommand ==
    /\ pduPc = "idle"
    /\ now + MaxIOAttempt * WaitBetweenAttempt <= MaxNow
    /\ pduPc' = "entry"
    /\ nAttempt' = 0
    /\ pduLog' = NoAttempt
    /\ pduResult' = NoResult
    /\ UNCHANGED <<sock, loginTime, now>>
    /\ PduFrame

\* safeOneCommand lines 176-178: if self.sessionExpired:
\* self._closeComm(cmd), which is closeSock() and self.loginTime = 0
\* (lines 98-104)
CheckSession ==
    /\ pduPc = "entry"
    /\ IF SessionExpired
       THEN sock' = None /\ loginTime' = 0
       ELSE UNCHANGED <<sock, loginTime>>
    /\ pduPc' = "send"
    /\ UNCHANGED <<now, nAttempt, pduLog, pduResult>>
    /\ PduFrame

\* safeOneCommand lines 180-181: return self.sendOneCommand(...), which
\* connects and authenticates if self.sock is None (lines 211-239), sends,
\* and reads one response (lines 191-209)
SendOneCommand(outcome) ==
    /\ pduPc = "send"
    /\ outcome \in {"connect", "login"} => sock = None
    /\ pduLog' = [sends |-> pduLog.sends + 1,
                   failed |-> pduLog.failed
                                  + (IF outcome = "ok" THEN 0 ELSE 1),
                   last |-> outcome,
                   reply |-> <<"reply to attempt", nAttempt>>,
                   sockWas |-> sock]
    /\ sock' = IF outcome \in {"connect", "login", "sendall"} THEN None
               ELSE "socket"
    /\ loginTime' = IF sock = None /\ outcome \notin {"connect", "login"}
                    THEN now ELSE loginTime
    /\ IF outcome = "ok"
       THEN /\ pduPc' = "idle"
            /\ pduResult' = [kind |-> "returned",
                             value |-> <<"reply to attempt", nAttempt>>]
       ELSE /\ pduPc' = "except"
            /\ UNCHANGED pduResult
    /\ UNCHANGED <<now, nAttempt>>
    /\ PduFrame

\* safeOneCommand lines 182-189: self._closeComm(cmd); then the next attempt
\* after time.sleep(self.waitBetweenAttempt), or raise
HandleError ==
    /\ pduPc = "except"
    /\ sock' = None
    /\ loginTime' = 0
    /\ IF MayRetry(nAttempt)
       THEN /\ now' = now + WaitBetweenAttempt
            /\ nAttempt' = nAttempt + 1
            /\ pduPc' = "entry"
            /\ UNCHANGED pduResult
       ELSE /\ pduResult' = [kind |-> "raised",
                             value |-> ErrorOf(pduLog.last)]
            /\ pduPc' = "idle"
            /\ UNCHANGED <<now, nAttempt>>
    /\ UNCHANGED pduLog
    /\ PduFrame

\* the steps of the thread that runs safeOneCommand
PduStep ==
    \/ CheckSession
    \/ \E outcome \in Outcomes : SendOneCommand(outcome)
    \/ HandleError

NextPdu ==
    \/ \E d \in {1, LoginTimeout + 1} : Tick(d)
    \/ SafeOneCommand
    \/ CheckSession
    \/ \E outcome \in Outcomes : SendOneCommand(outcome)
    \/ HandleError

SpecPdu == Init /\ [][NextPdu]_vars

\* every call of the driver (connect, sendall, select) has a timeout and
\* the sleep between two attempts ends: the thread in safeOneCommand takes
\* its next step
SpecPduLive == SpecPdu /\ WF_vars(PduStep)

(***************************************************************************)
(* The FitsWriter process (fits/fitsWriter.py): it takes commands from inQ *)
(* and reports on outQ.  outQ keeps every message that was put on it.      *)
(***************************************************************************)
\* the number of commands the model puts on inQ
MaxFitsCmds == 3

\* the commands of FitsWriter.__init__ lines 27-31 and of run
FitsCommands == {"create", "write", "amend", "close", "shutdown"}

\* the path of the files the model creates
FitsPath == "/data/raw/date/ramps/file.fits"

\* FitsWriter.report lines 57-63: the message put on outQ
Report(command, status) == [command |-> command, status |-> status]

\* FitsWriter.close lines 256-281, with an open file or without one:
\* currentFits.close() may raise (and does if currentFits is None), which
\* is logged; the rename of the temporary file (line 272) may raise
CloseReports(renameFails) ==
    IF tempPath # None /\ renameFails
    THEN <<Report("CLOSE", "ERROR")>>
    ELSE <<Report("CLOSE", "OK")>>

\* FitsWriter.create lines 112-150: the first try block opens the file; if
\* it raises, the failure is reported and the fields are cleared; the
\* second try block writes the PHDU to self.currentFits in any case
CreateReports(openFails, phduFails) ==
    (IF openFails THEN <<Report("CREATE", "ERROR")>> ELSE <<>>)
        \o (IF openFails \/ phduFails
            THEN <<Report("CREATE", "ERROR")>>
            ELSE <<Report("CREATE", "OK")>>)

\* FitsWriter.write lines 210-236 and amend lines 238-254: one try block;
\* it raises without an open file (self.currentFits is None)
HduReports(command, ioFails) ==
    IF currentFits = None \/ ioFails
    THEN <<Report(command, "ERROR")>>
    ELSE <<Report(command, "OK")>>

\* what the process leaves alone
FitsFrame ==
    /\ UNCHANGED <<vvars, mvars, xvars, frameLog>>
    /\ UNCHANGED <<tvars, lvars, svars, pvars, cvars>>

\* FitsBuffer puts a command on the queue of the process
PutCommand(cmd) ==
    /\ Len(taken) + Len(inQ) < MaxFitsCmds
    /\ inQ' = Append(inQ, cmd)
    /\ UNCHANGED <<outQ, currentFits, currentPath, tempPath, fwAlive, taken>>
    /\ FitsFrame

\* one turn of the loop of FitsWriter.run, lines 287-334: cmd =
\* self.inQ.get() and the method of that command; failA and failB say
\* whether the first and the second file operation of the method raise
RunOne(failA, failB) ==
    /\ fwAlive
    /\ inQ # <<>>
    /\ LET cmd == Head(inQ)
           reports ==
               IF cmd = "shutdown"
               THEN (IF currentFits # None THEN CloseReports(failB)
                     ELSE <<>>) \o <<Report("SHUTDOWN", "OK")>>
               ELSE IF cmd = "close" THEN CloseReports(failB)
               ELSE IF cmd = "create" THEN CreateReports(failA, failB)
               ELSE IF cmd = "write" THEN HduReports("WRITE", failA)
               ELSE HduReports("AMEND", failA)
           closes == cmd = "close" \/ (cmd = "shutdown" /\ currentFits # None)
           opens == cmd = "create" /\ ~failA
           clears == closes \/ (cmd = "create" /\ failA)
       IN  /\ inQ' = Tail(inQ)
           /\ outQ' = outQ \o reports
           /\ taken' = Append(taken, [cmd |-> cmd, reports |-> Len(reports)])
           /\ currentFits' = IF opens THEN "FITS"
                             ELSE IF clears THEN None ELSE currentFits
           /\ currentPath' = IF opens THEN FitsPath
                             ELSE IF clears THEN None ELSE currentPath
           /\ tempPath' = IF opens THEN FitsPath
                          ELSE IF clears THEN None ELSE tempPath
           /\ fwAlive' = (cmd # "shutdown")
    /\ FitsFrame

NextFits ==
    \/ \E cmd \in FitsCommands : PutCommand(cmd)
    \/ \E failA \in BOOLEAN, failB \in BOOLEAN : RunOne(failA, failB)

SpecFits == Init /\ [][NextFits]_vars

(***************************************************************************)
(* Claims about one Visit (checked under SpecVisit).                       *)
(***************************************************************************)

\* the successful frame indices of a visit: 0..99
FrameIdsOfVisit == {visitId * 100 + i : i \in 0..99}

\* C1: on a Visit that has not been stopped the calls succeed one after the
\* other, the i-th (from 0) returning visitId*100 + i, until 100 ids have been
\* issued; from then on the calls raise VisitOverflowed; the counter never
\* exceeds 100.
C1_FrameIdSequence ==
    /\ frameId <= 100
    /\ Len(issued) = frameId
    /\ \A i \in 1..Len(issued) : issued[i] = visitId * 100 + (i - 1)
    /\ returned \subseteq FrameIdsOfVisit
    /\ \A r \in raised : r.exc = "VisitOverflowed" => r.idx = 100
    /\ ~stopCalled => \A r \in raised : r.exc # "VisitAlreadyDone"
    /\ (\A t \in Threads : pc[t] = "idle") => Cardinality(returned) = frameId

\* C1 witness: all 100 ids were returned on a Visit that was never stopped,
\* and a further call has raised VisitOverflowed
C1_Witness ==
    /\ ~stopCalled
    /\ frameId = 100
    /\ Cardinality(returned) = 100
    /\ \E r \in raised : r.exc = "VisitOverflowed"

\* C2: under every interleaving of concurrent nextFrameId calls no frame id is
\* returned twice, no index is skipped, and the ids increase strictly in the
\* order in which the calls held the id lock.
C2_ConcurrentFrameIds ==
    /\ dupReturned = {}
    /\ Len(issued) > 0 => issued[1] = visitId * 100
    /\ \A i \in 1..(Len(issued) - 1) : issued[i + 1] = issued[i] + 1
    /\ \A t \in Threads, u \in Threads :
          (t # u /\ pc[t] \in {"release", "return"}
                 /\ pc[u] \in {"release", "return"})
              => frameIdx[t] # frameIdx[u]
    /\ \A t \in Threads :
          pc[t] \in {"release", "return"}
              => FrameIdOf(visitId, frameIdx[t]) \notin returned

\* C2 witness: two calls overlap; the one that held the lock later has not
\* yet returned while the earlier one has not returned either
C2_Witness ==
    \E t \in Threads, u \in Threads :
        /\ t # u
        /\ pc[t] = "return"
        /\ pc[u] = "return"
        /\ frameIdx[t] = 7
        /\ frameIdx[u] = 8

\* C3: once stop() has been called dead stays true whatever is called later,
\* every call of nextFrameId that starts later raises VisitAlreadyDone, and
\* (no call being in progress when stop() ran) the counter stays as it was.
C3_StopIsFinal ==
    /\ stopCalled => iAmDead
    /\ ~lateEntry
    /\ (stopCalled /\ quietAtStop) => frameId = cntAtStop

\* C3 witness: a Visit stopped with budget left, locked afterwards, on which
\* a later nextFrameId raised VisitAlreadyDone
C3_Witness ==
    /\ stopCalled
    /\ quietAtStop
    /\ cntAtStop \in 1..99
    /\ isActive
    /\ \E r \in raised : r.exc = "VisitAlreadyDone" /\ r.stopped

\* C4: when stop() and nextFrameId() run concurrently, no frame id is issued
\* (counter incremented, value returned) after dead has become true.
C4_NoIssueAfterDead == lateIssued \cap returned = {}

(***************************************************************************)
(* Claims about the VisitManager and its field (checked under Spec).       *)
(***************************************************************************)

\* a Visit as its constructor leaves it: inactive, not dead, no frame issued
IsFresh(v, vid, cls) ==
    /\ v.visitId = vid
    /\ v.caller = cls
    /\ v.isActive = FALSE
    /\ v.iAmDead = FALSE
    /\ v.frameId = 0

\* C5: getVisit(role), for a role of the field or without a field, behaves in
\* exactly three ways: (a) active field, role Visit available: that Visit is
\* returned, nothing is fetched, the field is unchanged; (b) active field,
\* role Visit unavailable: exactly one id is fetched, a new Visit with that id
\* is bound to the role by reconfigure and returned; (c) no active field:
\* exactly one id is fetched, a new Visit of its own is returned and the
\* manager still has no active field.
C5_GetVisitThreeWays ==
    [][ (/\ lastCall'.op = "getVisit"
         /\ (activeField = NoField \/ lastCall'.caller \in FieldRoles))
        => LET c == lastCall'.caller
               got == lastCall'.fetched
           IN
           /\ lastCall'.exc = None
           /\ held' = lastCall'.ret
           /\ IF activeField # NoField /\ IsAvailable(activeField.visit[c])
              THEN /\ got = <<>>
                   /\ gen2Last' = gen2Last
                   /\ lastCall'.reconf = None
                   /\ activeField' = activeField
                   /\ persisted' = persisted
                   /\ lastCall'.ret = FieldVisit(c)
              ELSE IF activeField # NoField
              THEN /\ Len(got) = 1
                   /\ got[1] = gen2Last + 1
                   /\ gen2Last' = got[1]
                   /\ lastCall'.reconf = c
                   /\ lastCall'.ret = FieldVisit(c)
                   /\ IsFresh(activeField'.visit[c], got[1], c)
                   /\ activeField'.pfsDesignId = activeField.pfsDesignId
              ELSE /\ Len(got) = 1
                   /\ got[1] = gen2Last + 1
                   /\ gen2Last' = got[1]
                   /\ lastCall'.reconf = None
                   /\ lastCall'.ret.kind = "own"
                   /\ lastCall'.ret.visit.visitId = got[1]
                   /\ activeField' = NoField
                   /\ persisted' = persisted
      ]_vars

\* C5 witness: case (b) on the fps role, whose Visit had an exposure row
C5_Witness ==
    /\ lastCall.op = "getVisit"
    /\ lastCall.caller = "fps"
    /\ lastCall.hadField
    /\ Len(lastCall.fetched) = 1
    /\ mcsExposure # {}
    /\ held = FieldVisit("fps")

\* C6: the Visit getVisit(role) returns is not dead at the moment it is
\* returned (first half of the claim).
C6_ReturnedNotDead ==
    (lastCall.op = "getVisit" /\ lastCall.exc = None)
        => ~Deref(activeField, lastCall.ret).iAmDead

\* C6: the Visit getVisit(role) returns is available (its isAvailable is
\* true) at the moment it is returned (second half of the claim).
C6_ReturnedAvailable ==
    (lastCall.op = "getVisit" /\ lastCall.exc = None)
        => IsAvailable(Deref(activeField, lastCall.ret))

\* C7: with an active field every getVisit('sps') returns a Visit whose id is
\* a fresh sequencer id, different from the ids of the earlier getVisit('sps')
\* calls and from visit0, and right after the call the ag role of the field
\* is bound to a Visit with the same id.
C7_SpsVisitAlwaysFresh ==
    /\ (lastCall.op = "getVisit" /\ lastCall.caller = "sps"
            /\ lastCall.hadField)
        => /\ lastCall.exc = None
           /\ Len(lastCall.fetched) = 1
           /\ lastCall.fetched[1] = gen2Last
           /\ lastCall.ret = FieldVisit("sps")
           /\ activeField.visit["sps"].visitId = lastCall.fetched[1]
           /\ activeField.visit["ag"].visitId = lastCall.fetched[1]
           /\ lastCall.fetched[1] # declaredVisit0
           /\ spsLog[Len(spsLog)] = lastCall.fetched[1]
    /\ \A i \in 1..Len(spsLog), j \in 1..Len(spsLog) :
          i < j => spsLog[i] # spsLog[j]

\* C7 witness: the second getVisit('sps') on a field
C7_Witness ==
    /\ lastCall.op = "getVisit"
    /\ lastCall.caller = "sps"
    /\ lastCall.hadField
    /\ Len(spsLog) >= 2

\* C8: reconfigure('sps', newVisit) binds newVisit to the sps role, replaces
\* the ag role's Visit with a fresh Visit (inactive, not dead, counter 0)
\* whose id is newVisit.visitId whatever the state of the ag Visit was, and
\* leaves the fps role as it is.
C8_ReconfigureSpsSyncsAg ==
    [][ lastCall'.reconf = "sps"
        => /\ IsFresh(activeField'.visit["sps"], lastCall'.fetched[1], "sps")
           /\ IsFresh(activeField'.visit["ag"],
                      activeField'.visit["sps"].visitId, "ag")
           /\ activeField'.visit["fps"] = activeField.visit["fps"]
           /\ lastCall'.agWas = OwnVisit(activeField.visit["ag"])
      ]_vars

\* C8 witness: the ag Visit that was replaced was locked and dead
C8_Witness ==
    /\ lastCall.reconf = "sps"
    /\ lastCall.agWas.visit.isActive
    /\ lastCall.agWas.visit.iAmDead
    /\ ~activeField.visit["ag"].isActive
    /\ ~activeField.visit["ag"].iAmDead

\* '0x%016x' of the design id 0xabcd
HexOfABCD == <<"0", "x", "0", "0", "0", "0", "0", "0", "0", "0", "0", "0",
               "0", "0", "a", "b", "c", "d">>

\* C9: declareNew(designId, visit0) yields a field whose ag, fps and sps
\* Visits all have id visit0 and are inactive and not dead, and before it
\* returns the persisted 'pfsField' record holds the design id as a hex
\* string followed by the three visit ids, all equal to visit0.
C9_DeclareNewBuildsAndPersists ==
    (lastCall.op = "declareNewField" /\ lastCall.built # NoField)
        => LET b == lastCall.built
               v0 == IF lastCall.gen THEN lastCall.fetched[1] ELSE 0
               rec == persisted.values
           IN
           /\ b.pfsDesignId = lastCall.design
           /\ \A r \in FieldRoles : IsFresh(b.visit[r], v0, r)
           /\ persisted.present
           /\ Len(rec) >= 4
           /\ rec[1].type = "str"
           /\ Len(rec[1].val) = 18
           /\ SubSeq(rec[1].val, 1, 2) = <<"0", "x">>
           /\ HexNumber(SubSeq(rec[1].val, 3, 18)) = lastCall.design
           /\ lastCall.design = 43981 => rec[1].val = HexOfABCD
           /\ rec[2] = PyInt(v0)
           /\ rec[3] = PyInt(v0)
           /\ rec[4] = PyInt(v0)

\* C9 witness: the design 0xabcd was declared on a manager without a field
C9_Witness ==
    /\ lastCall.op = "declareNewField"
    /\ lastCall.built # NoField
    /\ lastCall.exc = None
    /\ lastCall.design = 43981
    /\ persisted.present

\* C10: whatever field was active before (none, one of another design, one
\* of the same design), after declareNewField(designId) the active field is
\* the newly built field of designId whose three Visits carry the id just
\* fetched, and the persisted record describes that field.
C10_DeclareRetiresPrevious ==
    (lastCall.op = "declareNewField" /\ lastCall.design \in DesignStore)
        => /\ lastCall.exc = None
           /\ activeField # NoField
           /\ activeField.pfsDesignId = lastCall.design
           /\ \A r \in FieldRoles :
                 activeField.visit[r].visitId = lastCall.fetched[1]
           /\ persisted = PersistedKey(activeField)

(***************************************************************************)
(* Claims about the field's pfsConfig0, its persisted record and the       *)
(* restart (checked under SpecField and SpecRestart).                      *)
(***************************************************************************)

\* C11: when declareNewField is called with the design id of the active
\* field, the new active field (design id as declared, Visits with the id
\* just fetched) has the previous field's pfsConfig0; when the design ids
\* differ or no field was active, its pfsConfig0 is the one its constructor
\* found, nothing of the previous field.
C11_CarryForward ==
    [][ (lastCall'.op = "declareNewField" /\ lastCall'.design \in DesignStore)
        => /\ lastCall'.exc = None
           /\ activeField' # NoField
           /\ activeField'.pfsDesignId = lastCall'.design
           /\ \A r \in FieldRoles :
                 activeField'.visit[r].visitId = lastCall'.fetched[1]
           /\ IF activeField # NoField
                 /\ activeField.pfsDesignId = lastCall'.design
              THEN activeField'.pfsConfig0 = activeField.pfsConfig0
              ELSE activeField'.pfsConfig0 = lastCall'.built.pfsConfig0
      ]_vars

\* the design id and the visit ids of the three roles of a field
FieldIds(f) ==
    <<f.pfsDesignId, f.visit["ag"].visitId, f.visit["fps"].visitId,
      f.visit["sps"].visitId>>

\* C12: round trip.  In every reachable state with an active field, what
\* persist() writes for the field is rebuilt by reload() (design files
\* readable) into a field with the same pfsDesignId and the same ag, fps and
\* sps visit ids; and every restart that reloads the record persisted for
\* the active field gives an active field with these same ids.
C12_PersistReloadRoundTrip ==
    /\ [](activeField # NoField
            => LET r == Reload(PersistedKey(activeField), TRUE)
               IN  /\ r.exc = None
                   /\ r.field # NoField
                   /\ FieldIds(r.field) = FieldIds(activeField))
    /\ [][ (/\ lastCall'.op = "restart"
            /\ lastCall'.reloadExc = None
            /\ activeField # NoField
            /\ persisted = PersistedKey(activeField))
           => /\ activeField' # NoField
              /\ FieldIds(activeField') = FieldIds(activeField)
       ]_vars

\* C12 witness: a restart rebuilt a field one role of which had been
\* reconfigured (ag and fps ids differ), and loaded its pfsConfig0
C12_Witness ==
    /\ lastCall.op = "restart"
    /\ lastCall.reloadExc = None
    /\ activeField # NoField
    /\ activeField.visit["ag"].visitId # activeField.visit["fps"].visitId
    /\ activeField.pfsConfig0 # NoConfig

\* the tuple built from the in-memory state of a field: design id as hex
\* string, ag id, fps id, sps id, design id and visit0 of pfsConfig0
RecordOf(f) ==
    [present |-> TRUE,
     values |-> <<PyStr(FormatDesignId(f.pfsDesignId)),
                  PyInt(f.visit["ag"].visitId),
                  PyInt(f.visit["fps"].visitId),
                  PyInt(f.visit["sps"].visitId),
                  IF f.pfsConfig0 = NoConfig THEN PyNone
                  ELSE PyInt(f.pfsConfig0.pfsDesignId),
                  IF f.pfsConfig0 = NoConfig THEN PyNone
                  ELSE PyInt(f.pfsConfig0.visit0)>>]

\* C13: when a structural change of a field has completed (declareNew; a
\* reconfigure, by getVisit or by makePfsConfig; pfsConfig0 set by
\* synthesis in makePfsConfig or by loadPfsConfig0), the persisted
\* 'pfsField' record equals the tuple built from the state the field has
\* then.
C13_PersistedAfterChange ==
    /\ (lastCall.op = "declareNewField" /\ lastCall.built # NoField)
          => persisted = RecordOf(lastCall.built)
    /\ (lastCall.op \in {"getVisit", "makePfsConfig"}
            /\ lastCall.reconf # None)
          => persisted = RecordOf(activeField)
    /\ (lastCall.op = "makePfsConfig" /\ lastCall.ingested # <<>>)
          => persisted = RecordOf(activeField)
    /\ (lastCall.op = "loadPfsConfig0" /\ lastCall.exc = None)
          => persisted = RecordOf(activeField)

\* C13 witness: makePfsConfig synthesized pfsConfig0 and rebound the fps
\* role; the record holds the new fps id and the pfsConfig0 info
C13_Witness ==
    /\ lastCall.op = "makePfsConfig"
    /\ lastCall.reconf = "fps"
    /\ lastCall.ingested # <<>>
    /\ persisted.values[3] = PyInt(lastCall.visitId)
    /\ persisted.values[6] = PyInt(lastCall.visitId)

\* the 'pfsField' key as finishField leaves it: persistKey('pfsField', None)
ErasedKey == [present |-> TRUE, values |-> <<PyNone>>]

\* C14: finishField() leaves the manager without an active field and with
\* an erased persisted record, from which reloadField rebuilds no field;
\* getField() without an active field fails; and as long as the record is
\* erased (that is until declareNewField persists a new field) the manager
\* has no active field, whatever restarts and other calls happen.
C14_FinishFieldErases ==
    /\ lastCall.op = "finishField"
          => /\ activeField = NoField
             /\ persisted = ErasedKey
             /\ ReloadField(persisted, TRUE).field = NoField
    /\ (lastCall.op = "getField" /\ activeField = NoField)
          => lastCall.exc = "RuntimeError"
    /\ (lastCall.op = "getField" /\ activeField # NoField)
          => lastCall.exc = None
    /\ persisted = ErasedKey => activeField = NoField

\* C14 witness: the process restarted after a field was finished and the
\* manager came up without a field
C14_Witness ==
    /\ lastCall.op = "restart"
    /\ lastCall.reloadExc = "TypeError"
    /\ persisted = ErasedKey
    /\ activeField = NoField
    /\ gen2Last > 0

\* C15: constructing a VisitManager never fails because of the persisted
\* field: whatever PfsField.reload raises (no record, erased record, design
\* file not readable) stays inside reloadField, and the manager starts with
\* no active field; when reload raises nothing the manager starts with the
\* reloaded field.
C15_ConstructionNeverFails ==
    lastCall.op = "restart"
        => /\ lastCall.exc = None
           /\ lastCall.reloadExc # None => activeField = NoField
           /\ lastCall.reloadExc = None => activeField # NoField
           /\ lastCall.reloadExc \in
                 {None, "KeyError", "TypeError", "FileNotFoundError"}

\* C15 witness: the process restarted with the record of a field whose
\* design file could not be read
C15_Witness ==
    /\ lastCall.op = "restart"
    /\ lastCall.reloadExc = "FileNotFoundError"
    /\ lastCall.exc = None
    /\ activeField = NoField
    /\ persisted.present
    /\ Len(persisted.values) = 6

\* C16: makePfsConfig called with forcePfsConfig=False while pfsConfig0 is
\* None raises the 'no pfsConfig0 found' error and synthesizes nothing:
\* pfsConfig0 stays None, nothing is handed to the ingestion service, no
\* pfsConfig is returned, the three Visits and the persisted record are
\* unchanged.
C16_NoSynthesisWithoutForce ==
    [][ (/\ lastCall'.op = "makePfsConfig"
         /\ ~lastCall'.force
         /\ activeField.pfsConfig0 = NoConfig)
        => /\ lastCall'.exc = "RuntimeError: no pfsConfig0 found"
           /\ lastCall'.ingested = <<>>
           /\ lastCall'.copy = NoConfig
           /\ lastCall'.reconf = None
           /\ activeField'.pfsConfig0 = NoConfig
           /\ activeField'.visit = activeField.visit
           /\ activeField' = activeField
           /\ persisted' = persisted
           /\ pfsConfigRows' = pfsConfigRows
      ]_vars

\* C16 witness: makePfsConfig without force failed on a field without
\* pfsConfig0
C16_Witness ==
    /\ lastCall.op = "makePfsConfig"
    /\ ~lastCall.force
    /\ lastCall.exc = "RuntimeError: no pfsConfig0 found"
    /\ activeField.pfsConfig0 = NoConfig
    /\ pfsConfigRows = {}

\* C17: when makePfsConfig(visitId, forcePfsConfig=True) finds no
\* pfsConfig0, it synthesizes one from the design with visit = visitId,
\* sets it as pfsConfig0, hands it to the ingestion exactly once and
\* returns; on return the fps Visit's id is not lower than pfsConfig0.visit:
\* an fps Visit with a lower id has been replaced by a new Visit with id
\* visitId, any other fps Visit is untouched.  The ag and sps Visits are
\* untouched.
C17_ForcedSynthesis ==
    [][ (/\ lastCall'.op = "makePfsConfig"
         /\ lastCall'.force
         /\ activeField.pfsConfig0 = NoConfig)
        => LET vid == lastCall'.visitId
               cfg == activeField'.pfsConfig0
               fps == activeField.visit["fps"]
           IN
           /\ cfg # NoConfig
           /\ cfg.visit = vid
           /\ cfg.pfsDesignId = activeField.pfsDesignId
           /\ lastCall'.ingested = <<cfg>>
           /\ pfsConfigRows' = pfsConfigRows \cup {vid}
           /\ lastCall'.exc = None
           /\ lastCall'.copy.visit = vid
           /\ activeField'.visit["fps"].visitId >= cfg.visit
           /\ IF fps.visitId < vid
              THEN /\ IsFresh(activeField'.visit["fps"], vid, "fps")
                   /\ lastCall'.reconf = "fps"
              ELSE /\ activeField'.visit["fps"] = fps
                   /\ lastCall'.reconf = None
           /\ activeField'.visit["ag"] = activeField.visit["ag"]
           /\ activeField'.visit["sps"] = activeField.visit["sps"]
      ]_vars

\* C17 witness: a forced makePfsConfig for a visit id above the fps Visit's
\* id synthesized pfsConfig0 and rebound the fps role to that id
C17_Witness ==
    /\ lastCall.op = "makePfsConfig"
    /\ lastCall.force
    /\ lastCall.exc = None
    /\ Len(lastCall.ingested) = 1
    /\ lastCall.reconf = "fps"
    /\ activeField.visit["fps"].visitId = lastCall.visitId
    /\ activeField.pfsConfig0.visit = lastCall.visitId

\* C18: on a field that has a pfsConfig0, makePfsConfig with
\* forcePfsConfig=False fails, without changing the field, the persisted
\* record or the ingested rows, whenever pfsConfig0's design id differs from
\* the field's design id or pfsConfig0 has the CONVERGENCE_FAILED flag; with
\* forcePfsConfig=True it does not fail in either case and returns the copy
\* of pfsConfig0 for the visit (visit = visitId, visit0 = pfsConfig0.visit).
C18_GuardRails ==
    [][ (/\ lastCall'.op = "makePfsConfig"
         /\ activeField.pfsConfig0 # NoConfig)
        => LET cfg == activeField.pfsConfig0
               bad == \/ cfg.pfsDesignId # activeField.pfsDesignId
                      \/ "CONVERGENCE_FAILED" \in cfg.instStatusFlag
           IN
           /\ activeField' = activeField
           /\ persisted' = persisted
           /\ pfsConfigRows' = pfsConfigRows
           /\ lastCall'.ingested = <<>>
           /\ IF ~lastCall'.force /\ bad
              THEN /\ lastCall'.exc \in
                        {"RuntimeError: pfsConfig0 does not match",
                         "RuntimeError: CONVERGENCE_FAILED"}
                   /\ lastCall'.copy = NoConfig
              ELSE /\ lastCall'.exc = None
                   /\ lastCall'.copy =
                        [pfsDesignId |-> cfg.pfsDesignId,
                         visit |-> lastCall'.visitId,
                         visit0 |-> cfg.visit,
                         instStatusFlag |-> cfg.instStatusFlag]
      ]_vars

\* C18 witness: a forced makePfsConfig returned a copy of a pfsConfig0 of
\* another design that has the CONVERGENCE_FAILED flag
C18_Witness ==
    /\ lastCall.op = "makePfsConfig"
    /\ lastCall.force
    /\ lastCall.exc = None
    /\ lastCall.ingested = <<>>
    /\ activeField.pfsConfig0.pfsDesignId # activeField.pfsDesignId
    /\ "CONVERGENCE_FAILED" \in activeField.pfsConfig0.instStatusFlag
    /\ lastCall.copy.visit = lastCall.visitId


\* C19: in every state of a field, visit0 is pfsConfig0.visit when
\* pfsConfig0 is loaded and the fps Visit's id when it is not; in particular
\* the visit0 declareNewField returns for a design without a realized
\* config is the id just fetched.
C19_Visit0Definition ==
    activeField # NoField
        => Visit0(activeField) =
              IF activeField.pfsConfig0 # NoConfig
              THEN PyInt(activeField.pfsConfig0.visit)
              ELSE PyInt(activeField.visit["fps"].visitId)

\* C20: whenever pfsConfig0 is created (synthesized by makePfsConfig) or
\* loaded (loadPfsConfig0), its visit is not lower than the id of the fps
\* Visit the field binds at that moment.
C20_ConfigNotBehindFps ==
    (\/ lastCall.op = "makePfsConfig" /\ lastCall.ingested # <<>>
     \/ lastCall.op = "loadPfsConfig0" /\ lastCall.exc = None)
        => activeField.pfsConfig0.visit >= activeField.visit["fps"].visitId

(***************************************************************************)
(* Claims about the search for the pfsConfig file, the availability of     *)
(* the Visits, the roles of the field and the sequencer.                   *)
(***************************************************************************)
\* the MaxDateDirs most recent of the date directories
RecentWindow ==
    {d \in dateDirs : Cardinality({e \in dateDirs : e > d}) < MaxDateDirs}

\* the files named for (designId, visit0) in those directories
Candidates(designId, visit0) ==
    {file \in configFiles :
        /\ file.dateDir \in RecentWindow
        /\ file.pfsDesignId = designId
        /\ file.visit = visit0}

\* C21: loadPfsConfig0(designId, visit0) looks into the MaxDateDirs (7) most
\* recent date directories only and uses the file of the newest of them that
\* holds one named for (designId, visit0); a file that only an older
\* directory holds counts as not found.  Not found, the call leaves
\* pfsConfig0 and the persisted record as they were, returns silently with
\* doIgnore=True and raises FileNotFoundError with doIgnore=False.
C21_LoadSearchesRecentDirs ==
    [][lastCall'.op = "loadPfsConfig0"
        => LET cands == Candidates(lastCall'.design, lastCall'.visitId)
           IN  IF cands = {}
               THEN /\ activeField' = activeField
                    /\ persisted' = persisted
                    /\ lastCall'.exc = IF lastCall'.doIgnore THEN None
                                       ELSE "FileNotFoundError"
               ELSE LET first == CHOOSE file \in cands :
                                    \A other \in cands :
                                        other.dateDir <= file.dateDir
                    IN  IF first.readable
                        THEN /\ lastCall'.exc = None
                             /\ activeField'.pfsConfig0 =
                                    PfsConfig(first.pfsDesignId, first.visit,
                                              first.instStatusFlag)
                        ELSE activeField' = activeField]_vars

\* a file that an older directory holds has just not been found, and the
\* call with doIgnore=False raised
C21_Witness ==
    /\ lastCall.op = "loadPfsConfig0"
    /\ ~lastCall.doIgnore
    /\ lastCall.exc = "FileNotFoundError"
    /\ Cardinality(dateDirs) > MaxDateDirs
    /\ \E file \in configFiles :
           /\ file.pfsDesignId = lastCall.design
           /\ file.visit = lastCall.visitId
           /\ file.readable
    /\ activeField.pfsConfig0 = NoConfig

\* the Visits of the state: those of the active field and the one a command
\* holds
VisitsOfState ==
    (IF activeField = NoField THEN {}
     ELSE {activeField.visit[r] : r \in DOMAIN activeField.visit})
        \cup (IF held = NoVisit THEN {} ELSE {Deref(activeField, held)})

\* C22: an fps Visit is available exactly when it is not active, table
\* mcs_exposure has no row for its visit id and table pfs_config has no row
\* for its visit id; a row of either table makes it unavailable even if it
\* was never locked.
C22_FpsAvailability ==
    \A v \in VisitsOfState :
        v.caller = "fps"
            => (IsAvailable(v) <=> /\ ~v.isActive
                                   /\ v.visitId \notin mcsExposure
                                   /\ v.visitId \notin pfsConfigRows)

\* C23: an ag Visit is available if and only if it is not locked, whatever
\* rows the store holds for its visit id and whatever locks and unlocks came
\* before: in every state this holds of every ag Visit (for AgVisit of
\* pfsVisit.py, and for the frozen AgVisit of visit.py with either answer of
\* its store), and getVisit('ag') on a field fetches a new id exactly when
\* the field's ag Visit is locked.
C23_AgAvailability ==
    /\ [](\A v \in VisitsOfState :
            v.caller = "ag"
                => /\ IsAvailable(v) <=> ~v.isActive
                   /\ \A populated \in BOOLEAN :
                          LegacyIsAvailable(v.isActive, populated,
                                            LegacyAgIsFrozen)
                              <=> ~v.isActive)
    /\ [][(/\ lastCall'.op = "getVisit"
           /\ lastCall'.caller = "ag"
           /\ activeField # NoField)
            => /\ lastCall'.exc = None
               /\ (lastCall'.fetched = <<>>
                      <=> ~activeField.visit["ag"].isActive)]_vars

\* getVisit('ag') has just handed out the field's ag Visit without a new id
\* although mcs_exposure and pfs_config hold rows for its visit id
C23_Witness ==
    /\ lastCall.op = "getVisit"
    /\ lastCall.caller = "ag"
    /\ lastCall.hadField
    /\ lastCall.fetched = <<>>
    /\ held = FieldVisit("ag")
    /\ ~activeField.visit["ag"].isActive
    /\ activeField.visit["ag"].visitId \in mcsExposure
    /\ activeField.visit["ag"].visitId \in pfsConfigRows

\* C24: an sps Visit is never available: not right after its construction
\* and not after any sequence of lock, unlock, stop and nextFrameId calls.
C24_SpsNeverAvailable ==
    \A v \in VisitsOfState : v.caller = "sps" => ~IsAvailable(v)

\* a command holds an sps Visit that has issued a frame id and is unlocked
\* and not stopped
C24_Witness ==
    /\ held # NoVisit
    /\ Deref(activeField, held).caller = "sps"
    /\ Deref(activeField, held).frameId >= 1
    /\ ~Deref(activeField, held).isActive
    /\ ~Deref(activeField, held).iAmDead
    /\ ~IsAvailable(Deref(activeField, held))
    /\ lastCall.op = "nextFrameId"

\* C25: a Visit that reconfigure replaces in the active field is retired:
\* right after the call that replaced it (getVisit, or makePfsConfig moving
\* the fps role forward) the replaced object is dead, so that nextFrameId on
\* it raises VisitAlreadyDone.  The replaced object is looked at where it is
\* still referred to: the fps Visit a command holds while makePfsConfig
\* replaces it, and the ag Visit that getVisit('sps') puts out of its role;
\* the last conjunct is the nextFrameId call of that command right after
\* makePfsConfig replaced the field's fps Visit it holds.
C25_SupersededIsRetired ==
    [][/\ (/\ lastCall'.op = "makePfsConfig"
           /\ lastCall'.reconf = "fps"
           /\ held = FieldVisit("fps"))
            => /\ held'.kind = "own"
               /\ held'.visit.iAmDead
               /\ NextFrameIdRaises(held'.visit) = "VisitAlreadyDone"
       /\ (/\ lastCall'.op = "getVisit"
           /\ lastCall'.reconf = "sps")
            => /\ lastCall'.agWas.visit.iAmDead
               /\ NextFrameIdRaises(lastCall'.agWas.visit)
                      = "VisitAlreadyDone"
       /\ (/\ lastCall.op = "makePfsConfig"
           /\ lastCall.reconf = "fps"
           /\ held.kind = "own"
           /\ held.visit.caller = "fps"
           /\ held.visit.name = "visit0"
           /\ lastCall'.op = "nextFrameId")
            => lastCall'.exc = "VisitAlreadyDone"]_vars

\* C26: the role set of a field is closed: in every state the active field
\* binds exactly the roles ag, fps and sps, each to one Visit, and
\* PfsField.getVisit and PfsField.reconfigure called with another role raise
\* and leave the bindings of the roles and the persisted record unchanged.
C26_RolesClosed ==
    [][/\ activeField' # NoField
            => DOMAIN activeField'.visit = FieldRoles
       /\ (/\ lastCall'.op \in {"PfsField.getVisit", "PfsField.reconfigure"}
           /\ lastCall'.role \notin FieldRoles)
            => /\ lastCall'.exc # None
               /\ activeField'.visit = activeField.visit
               /\ persisted' = persisted]_vars

\* C27: every visit id of a Visit the manager creates or binds to a role of
\* the active field (declareNewField with any arguments, getVisit, newVisit)
\* is a positive id the sequencer handed out; the manager invents none.
C27_IdsFromSequencer ==
    \A v \in VisitsOfState : v.visitId \in 1..gen2Last

\* the state of the manager a failed call must leave alone
ManagerState == <<activeField, persisted, held, gen2Last>>

\* getVisit(caller) needs a new id from the sequencer
NeedsNewVisit(caller) ==
    \/ activeField = NoField
    \/ /\ caller \in DOMAIN activeField.visit
       /\ ~IsVisitAvailableFor(activeField, caller)

\* C28: when the call of the sequencer fails inside declareNewField or
\* getVisit, the failure reaches the caller (no retry: no id is taken) and
\* the manager is as before the call: the same active field with the same
\* three Visits and the same persisted record.  The property is the same
\* for the VisitManager of visitManager.py (SpecGen2) and for the one of
\* visit.py (SpecLegacy).
C28_SequencerFailurePropagates ==
    [][(/\ ~gen2Up
        /\ \/ lastCall'.op = "declareNewField" /\ lastCall'.gen
           \/ lastCall'.op = "getVisit" /\ NeedsNewVisit(lastCall'.caller))
        => /\ lastCall'.exc = Gen2Error
           /\ lastCall'.fetched = <<>>
           /\ ManagerState' = ManagerState]_vars

\* the grating position the arms of a design call for
RequiredPosition(arms) ==
    IF "r" \in arms /\ "m" \notin arms THEN "low"
    ELSE IF "m" \in arms /\ "r" \notin arms THEN "med"
    ELSE None

\* C29: getGratingPosition() depends on the arms of the design only: 'low'
\* when they contain r and not m, 'med' when they contain m and not r, None
\* when they contain both or neither, whatever other arms are listed.  The
\* property is the same for the PfsField of pfsField.py (SpecGrating) and
\* for the one of visit.py (SpecLegacy).
C29_GratingPosition ==
    lastCall.op = "getGratingPosition"
        => lastCall.position = RequiredPosition(designArms[lastCall.design])

\* C30: a pfsConfig file that loadPfsConfig0 has located and cannot read or
\* parse is a fatal error for the caller: whenever loadPfsConfig0 returns
\* normally after finding the file, pfsConfig0 is the pfsConfig of that
\* file.
C30_ReadFailureIsFatal ==
    [][(/\ lastCall'.op = "loadPfsConfig0"
        /\ Candidates(lastCall'.design, lastCall'.visitId) # {}
        /\ lastCall'.exc = None)
        => LET cands == Candidates(lastCall'.design, lastCall'.visitId)
               first == CHOOSE file \in cands :
                           \A other \in cands :
                               other.dateDir <= file.dateDir
           IN  activeField'.pfsConfig0 =
                   PfsConfig(first.pfsDesignId, first.visit,
                             first.instStatusFlag)]_vars

(***************************************************************************)
(* Claims about the ids of the roles over time, the callers of getVisit,   *)
(* interleaved calls and frame ids over restarts.                          *)
(***************************************************************************)
\* C31: the ag and the sps Visit of a field travel together: in every state
\* reached through declareNewField, getVisit for any role, lock, unlock and
\* makePfsConfig the id of the field's ag Visit is the id of its sps Visit.
C31_AgFollowsSps ==
    activeField # NoField
        => activeField.visit["ag"].visitId = activeField.visit["sps"].visitId

\* the role of the field a caller name stands for
RoleOfCaller(caller) ==
    IF caller \in {"fps", "mcs"} THEN "fps"
    ELSE IF caller \in {"ag", "agc"} THEN "ag"
    ELSE "sps"

\* C32: VisitManager.getVisit(caller) succeeds for every caller of the
\* enumeration sps, fps, mcs, ag, agc, with and without an active field; with
\* an active field it returns the Visit of the caller's role, so mcs gets
\* the Visit bound to fps and agc the Visit bound to ag.
C32_EveryCallerServed ==
    (lastCall.op = "getVisit" /\ lastCall.caller \in Callers)
        => /\ lastCall.exc = None
           /\ lastCall.hadField
                => lastCall.ret = FieldVisit(RoleOfCaller(lastCall.caller))

\* C35: with a sequencer that returns strictly increasing ids and
\* makePfsConfig given ids obtained from it, no getVisit and no makePfsConfig
\* call on a field lowers the visit id bound to a role of that field.
C35_RoleIdsNeverDecrease ==
    [][(/\ activeField # NoField
        /\ activeField' # NoField
        /\ lastCall'.op \in {"getVisit", "makePfsConfig"})
          => \A r \in DOMAIN activeField.visit :
                 /\ r \in DOMAIN activeField'.visit
                 /\ activeField'.visit[r].visitId
                        >= activeField.visit[r].visitId]_vars

\* makePfsConfig was given an id below the id of the fps role and left the
\* role alone, after getVisit had raised the fps id above visit0
C35_Witness ==
    /\ lastCall.op = "makePfsConfig"
    /\ lastCall.ingested # <<>>
    /\ lastCall.reconf = None
    /\ activeField.visit["fps"].visitId > lastCall.visitId
    /\ activeField.visit["fps"].visitId > activeField.visit["sps"].visitId

\* C34: for each role, no frame id is returned twice by nextFrameId on the
\* Visits handed out for that role, over declareNewField, getVisit, lock,
\* unlock, nextFrameId and restarts of the process that reload the persisted
\* field.
C34_FrameIdsNeverRepeat ==
    [][(lastCall'.op = "nextFrameId" /\ lastCall'.frame # <<>>)
          => <<RoleOfCaller(lastCall'.caller), lastCall'.frame[1]>>
                 \notin frameLog]_vars

\* both threads have a finished getVisit('sps') call on a field and were
\* returned the same Visit
SameSpsVisitTwice ==
    /\ \A t \in Threads : gvPc[t] = "done" /\ gvCaller[t] = "sps"
    /\ \A t \in Threads : gvRet[t] = gvRet["t1"]
    /\ activeField # NoField
    /\ gvRet["t1"] = activeField.visit["sps"]

\* C33: getVisit and reconfigure take no lock: two getVisit('sps') calls on
\* the same field that are interleaved can both be returned the same Visit,
\* the id one of them minted being lost; two calls that run one after the
\* other are never returned the same Visit.
C33_SameVisitOnlyWhenInterleaved ==
    SameSpsVisitTwice => \E t \in Threads : gvOverlap[t]

\* both interleaved calls minted an id, both return the Visit of the later
\* id, the other id is bound to nothing
C33_Witness ==
    /\ SameSpsVisitTwice
    /\ \A t \in Threads : gvNew[t] # NoVisit
    /\ \E t \in Threads : gvNew[t].visitId # gvRet[t].visitId
    /\ \E t \in Threads :
          \A r \in DOMAIN activeField.visit :
              activeField.visit[r].visitId # gvNew[t].visitId

\* the commands wrapped by blocking that are on the queue of the thread or
\* being called by it
BlockingAccepted ==
    {thrQueue[i].cmd : i \in {j \in 1..Len(thrQueue) :
                                  thrQueue[j].kind = "blocking"}}
        \cup (IF thrRunning.kind = "blocking" THEN {thrRunning.cmd} ELSE {})

\* C36: of the commands wrapped by blocking at most one is queued or running
\* on a controller thread at any time: one submitted while another has been
\* accepted and has not finished is rejected with RuntimeWarning and is not
\* queued.
C36_OneBlockingAtATime == Cardinality(BlockingAccepted) <= 1

\* C40: whenever doAbort of a lamp controller ends, by returning or by
\* raising because the ongoing command did not finish within the time limit,
\* the abortWarmup flag is false again, so that no later warmup or go
\* sequence is aborted or skipped by a stale flag.
C40_AbortFlagCleared ==
    abortEnded \in {"returned", "raised"} => ~abortWarmup

\* the characters of a sequence of chunks, in order
RECURSIVE Flatten(_)
Flatten(chunks) ==
    IF chunks = <<>> THEN <<>> ELSE Head(chunks) \o Flatten(Tail(chunks))

\* the complete lines of a stream: the strings that end at each EOL
RECURSIVE LinesOf(_, _)
LinesOf(s, eol) ==
    IF Find(s, eol) = -1 THEN <<>>
    ELSE <<Upto(s, Find(s, eol))>>
             \o LinesOf(From(s, Find(s, eol) + Len(eol)), eol)

\* a stream without its first n lines and their EOLs
RECURSIVE AfterLines(_, _, _)
AfterLines(s, eol, n) ==
    IF n = 0 THEN s
    ELSE AfterLines(From(s, Find(s, eol) + Len(eol)), eol, n - 1)

\* C37: for every way the stream is cut into recv() chunks, the successive
\* getOneResponse calls return the EOL-delimited lines of the stream in the
\* order of arrival, each once and without its EOL, and the characters
\* after the last returned line stay in the buffer for the next call.
C37_LinesInOrderOnce ==
    LET all == LinesOf(Flatten(sockSent), EOL)
        n == Len(sockReturned)
    IN  /\ n <= Len(all)
        /\ sockReturned = Upto(all, n)
        /\ buffer \o Flatten(sockPending)
               = AfterLines(Flatten(sockSent), EOL, n)
        /\ (sockLast.called /\ ~sockLast.timedOut)
               => sockLast.ret = all[n]

\* two lines were returned from a stream whose '\r\n' was cut in two by the
\* chunks, the second line arriving in the chunk that completed the first
C37_Witness ==
    /\ EOL = <<"\r", "\n">>
    /\ Len(sockReturned) = 2
    /\ Len(sockSent) = 2
    /\ sockSent[1][Len(sockSent[1])] = "\r"
    /\ sockSent[2][1] = "\n"
    /\ sockPending = <<>>

\* what C38 says of every state of a safeOneCommand call
PduCallOk ==
    /\ pduLog.sends <= MaxIOAttempt + 1
    /\ (pduPc \in {"entry", "send"} /\ nAttempt > 0)
           => sock = None /\ loginTime = 0
    /\ pduLog.sends > 1 => pduLog.sockWas = None
    /\ pduResult.kind = "returned"
           => /\ pduLog.last = "ok"
              /\ pduLog.failed = pduLog.sends - 1
              /\ pduResult.value = pduLog.reply
    /\ pduResult.kind = "raised"
           => /\ pduLog.sends = MaxIOAttempt + 1
              /\ pduLog.failed = pduLog.sends
              /\ pduResult.value = ErrorOf(pduLog.last)

\* C38: safeOneCommand of the PDU driver always terminates: it sends the
\* command at most maxIOAttempt + 1 times, the connection is closed (socket
\* cleared, loginTime 0) after each failed attempt and before the next, it
\* returns the reply of the first attempt that succeeds, and it raises the
\* last error if every attempt fails.
C38_SafeOneCommandTerminates ==
    /\ []PduCallOk
    /\ (pduPc # "idle") ~> (pduPc = "idle" /\ pduResult # NoResult)

\* a call on an expired session that raised the error of its last attempt
\* after maxIOAttempt + 1 attempts
C38_Witness ==
    /\ pduPc = "idle"
    /\ pduResult.kind = "raised"
    /\ pduResult.value = "RuntimeError"
    /\ pduLog.sends = MaxIOAttempt + 1
    /\ now > LoginTimeout
    /\ sock = None
    /\ loginTime = 0

\* the command name FitsWriter reports a command under
ReportName(cmd) ==
    IF cmd = "create" THEN "CREATE"
    ELSE IF cmd = "write" THEN "WRITE"
    ELSE IF cmd = "amend" THEN "AMEND"
    ELSE IF cmd = "close" THEN "CLOSE"
    ELSE "SHUTDOWN"

\* C39: the FitsWriter process puts exactly one status message on outQ for
\* every command it takes from inQ (create, write, amend, close, shutdown),
\* whether the command succeeds or fails, in the order of the commands.
C39_OneReportPerCommand ==
    /\ Len(outQ) = Len(taken)
    /\ \A i \in 1..Len(taken) : outQ[i].command = ReportName(taken[i].cmd)
====
